---- MODULE Spec2Model ----
(***************************************************************************)
(* The authentication core of the bookstore backend (AuthService and the   *)
(* UsersService that shares its users table), as a state machine over the  *)
(* users table.  Every service method is one action, which takes the       *)
(* method's awaits (its store calls and bcrypt.compare) one step at a      *)
(* time: the steps of the calls in flight interleave.                      *)
(***************************************************************************)
EXTENDS Integers, Sequences, FiniteSets, Bags, TLC

VARIABLES
    users,      \* the rows of table "users"
    nextId,     \* the value the serial column "id" hands out next
    now,        \* the wall clock (new Date() / now())
    regPw,      \* history (kept under SpecHistory only): id -> the email and
                \*          plaintext given to register, until that id's password
                \*          is changed
    last,       \* the last service call: its name, arguments and outcome
    calls,      \* the number of service calls and clock ticks so far
    tokens,     \* the bearer tokens the server has issued (they live with the
                \* clients; the server keeps none)
    log,        \* what the process has written to its console
    books,      \* the rows of table "books"
    nextBookId, \* the value the serial column "id" of books hands out next
    procs,      \* history (kept under SpecRace and SpecChange only): the calls
                \* started, in the order of their arrival, each one's position
                \* and local variables, the finished ones with their outcome
    pending     \* the calls in flight (a bag): each one's position and local
                \* variables

httpVars == <<tokens, log, books, nextBookId>>

vars == <<users, nextId, now, regPw, last, calls, tokens, log, books, nextBookId, procs,
          pending>>

-----------------------------------------------------------------------------
(* Bounds of the model *)

MaxId == 2          \* rows ever inserted
MaxSteps == 3       \* service calls and clock ticks in one run

(* SQL NULL / JS null in a text column, JS undefined, an absent row, and an
   absent password hash. *)
Null == "null"
Undefined == "undefined"
NoUser == [id |-> 0]
NoHash == <<>>

Emails == {"a@b.com", "c@d.com"}
GoogleIds == {"g-1", "g-2"}
Photo == "http://p/1.png"

(* Plaintext passwords are sequences of code points.  PwLongA and PwLongB are
   37 characters long (inside the 6..50 the DTOs allow) and differ in their
   last character only; each of their first 36 characters takes two bytes. *)
PwShort == <<115, 101, 99, 114, 101, 116, 49>>
PwLongA == [i \in 1..36 |-> 233] \o <<97>>
PwLongB == [i \in 1..36 |-> 233] \o <<98>>
Passwords == {PwShort, PwLongA, PwLongB}

(* the salts bcrypt.hash may draw: one for every call of a run that hashes,
   so that the hashes of a run may all differ and any of them may agree *)
Salts == {"saltA", "saltB", "saltC"}

-----------------------------------------------------------------------------
(* bcryptjs: hash(s, 10) and compare(s, hash) *)

BcryptCost == 10
BcryptKeyBytes == 72

(* UTF-8 of a code point below 2048: one byte, or two *)
Utf8Char(c) == IF c < 128 THEN <<c>> ELSE <<192 + (c \div 64), 128 + (c % 64)>>

RECURSIVE Utf8(_)
Utf8(s) == IF s = <<>> THEN <<>> ELSE Utf8Char(Head(s)) \o Utf8(Tail(s))

(* The key schedule reads BcryptKeyBytes bytes, cyclically, from the UTF-8
   bytes of the password followed by a zero byte. *)
KeyStream(s) ==
    LET key == Utf8(s) \o <<0>>
    IN  [i \in 1..BcryptKeyBytes |-> key[((i - 1) % Len(key)) + 1]]

(* the key streams of the passwords of the model, computed once *)
KeyStreams == [s \in Passwords |-> KeyStream(s)]

BcryptKey(s) == IF s \in Passwords THEN KeyStreams[s] ELSE KeyStream(s)

BcryptHashWith(s, salt, cost) == <<"$2a$", cost, salt, <<salt, cost, BcryptKey(s)>>>>

BcryptCompare(s, hash) ==
    /\ Len(hash) = 4
    /\ BcryptHashWith(s, hash[3], hash[2]) = hash

-----------------------------------------------------------------------------
(* The store: keyed lookups *)

Rows(us, field, value) == {u \in us : u[field] = value}

First(rows) == IF rows = {} THEN NoUser ELSE CHOOSE u \in rows : TRUE

findUserByEmail(us, email) == First(Rows(us, "email", email))

findUserByGoogleId(us, googleId) == First(Rows(us, "googleId", googleId))

findUserById(us, id) == First(Rows(us, "id", id))

(* INSERT ... RETURNING: the column defaults of the table *)
OrNull(v) == IF v = Undefined THEN Null ELSE v

(* a password column that defaults to the hash of the empty string *)
InsertRow_DefaultPassword(id, newUser, password, t) ==
    [id        |-> id,
     email     |-> newUser.email,
     password  |-> IF password = NoHash
                   THEN BcryptHashWith(<<>>, "saltA", BcryptCost)
                   ELSE password,
     firstName |-> OrNull(newUser.firstName),
     lastName  |-> OrNull(newUser.lastName),
     googleId  |-> OrNull(newUser.googleId),
     avatar    |-> OrNull(newUser.avatar),
     isActive  |-> TRUE,
     createdAt |-> t,
     updatedAt |-> t]

InsertRow(id, newUser, password, t) ==
    [id        |-> id,
     email     |-> newUser.email,
     password  |-> password,
     firstName |-> OrNull(newUser.firstName),
     lastName  |-> OrNull(newUser.lastName),
     googleId  |-> OrNull(newUser.googleId),
     avatar    |-> OrNull(newUser.avatar),
     isActive  |-> TRUE,
     createdAt |-> t,
     updatedAt |-> t]

(* UPDATE ... SET: a key whose value is undefined is left out of the SET *)
TextColumns == {"email", "firstName", "lastName", "googleId", "avatar"}

IsSet(set, f) == f \in DOMAIN set /\ (f \in TextColumns => set[f] # Undefined)

SetRow(u, set) == [f \in DOMAIN u |-> IF IsSet(set, f) THEN set[f] ELSE u[f]]

SetPassword(u, hash, t) == [u EXCEPT !.password = hash, !.updatedAt = t]

UpdateWhereId(us, id, set) == {IF u.id = id THEN SetRow(u, set) ELSE u : u \in us}

(* the table without users_email_unique *)
UniqueOk_NoEmailConstraint(us) ==
    \A u, v \in us :
        u.id # v.id => (u.googleId # Null => u.googleId # v.googleId)

(* the table without users_google_id_unique *)
UniqueOk_NoGoogleIdConstraint(us) ==
    \A u, v \in us :
        u.id # v.id => u.email # v.email

(* the table without either constraint *)
UniqueOk_NoConstraints(us) == TRUE

(* the UNIQUE constraints of the table *)
UniqueOk(us) ==
    \A u, v \in us :
        u.id # v.id =>
            /\ u.email # v.email
            /\ (u.googleId # Null => u.googleId # v.googleId)

-----------------------------------------------------------------------------
(* AuthService *)

JwtExpiresIn == 7

JwtSecret == "your-super-secret-jwt-key-change-this-in-production"

(* jwtService.sign: the claims, iat and exp, under the configured secret *)
JwtSign(payload, t) ==
    [payload |-> payload, iat |-> t, exp |-> t + JwtExpiresIn, sig |-> JwtSecret]

WithoutPassword(user) == [f \in DOMAIN user \ {"password"} |-> user[f]]

(* validateUser without the test for a stored hash *)
validateUser_SkipsNullHash(us, email, password) ==
    LET user == findUserByEmail(us, email)
    IN  IF /\ user # NoUser
           /\ (user.password = NoHash \/ BcryptCompare(password, user.password))
        THEN user
        ELSE NoUser

(* validateUser that turns away a deactivated user *)
validateUser_ActiveOnly(us, email, password) ==
    LET user == findUserByEmail(us, email)
    IN  IF /\ user # NoUser
           /\ user.isActive
           /\ user.password # NoHash
           /\ BcryptCompare(password, user.password)
        THEN user
        ELSE NoUser

validateUser(us, email, password) ==
    LET user == findUserByEmail(us, email)
    IN  IF /\ user # NoUser
           /\ user.password # NoHash
           /\ BcryptCompare(password, user.password)
        THEN user
        ELSE NoUser

(* login returning the record as it is *)
login_KeepsPassword(user, t) ==
    [access_token |-> JwtSign([sub       |-> user.id,
                                email     |-> user.email,
                                firstName |-> user.firstName,
                                lastName  |-> user.lastName], t),
     user |-> user]

login(user, t) ==
    [access_token |-> JwtSign([sub       |-> user.id,
                                email     |-> user.email,
                                firstName |-> user.firstName,
                                lastName  |-> user.lastName], t),
     user |-> WithoutPassword(user)]

NoBody == [none |-> TRUE]

(* The outcome of a service call: what it returns or throws, and the store
   it leaves.  status is the HTTP status of the exception thrown; of a call
   that returns it is the status of the route: 201 for the POST routes login
   and register, 200 for the routes with HttpCode(OK) and for GET and PATCH,
   204 for DELETE, 302 for the redirect of the Google callback. *)
Outcome(status, message, body, us, nid) ==
    [status |-> status, message |-> message, body |-> body, users |-> us, nextId |-> nid]

Returned(r) == r.status < 400

(* A store call that violates a constraint throws: the request ends in the
   framework's 500.  The serial value the failed INSERT drew stays drawn. *)
DbError(us, nid) == Outcome(500, "Internal server error", NoBody, us, nid)

(* Reading a property of undefined throws a TypeError, which is no
   HttpException: the request ends in the framework's 500 as well, before
   the statements that follow. *)
TypeError(us, nid) == Outcome(500, "Internal server error", NoBody, us, nid)

(* register without the lookup of an existing user *)
register_NoExistenceCheck(us, nid, t, userData, salt) ==
    LET hashedPassword == BcryptHashWith(userData.password, salt, BcryptCost)
        newUser == [email     |-> userData.email,
                    firstName |-> userData.firstName,
                    lastName  |-> userData.lastName,
                    googleId  |-> Undefined,
                    avatar    |-> Undefined]
        createdUser == InsertRow(nid, newUser, hashedPassword, t)
    IN  Outcome(201, "", login(createdUser, t), us \cup {createdUser}, nid + 1)

(* register inserting the password as it was given *)
register_StoresPlaintext(us, nid, t, userData, salt) ==
    LET existingUser == findUserByEmail(us, userData.email)
        newUser == [email     |-> userData.email,
                    firstName |-> userData.firstName,
                    lastName  |-> userData.lastName,
                    googleId  |-> Undefined,
                    avatar    |-> Undefined]
        createdUser == InsertRow(nid, newUser, userData.password, t)
    IN  IF existingUser # NoUser
        THEN Outcome(401, "User already exists", NoBody, us, nid)
        ELSE Outcome(201, "", login(createdUser, t), us \cup {createdUser}, nid + 1)

register(us, nid, t, userData, salt) ==
    LET existingUser == findUserByEmail(us, userData.email)
        hashedPassword == BcryptHashWith(userData.password, salt, BcryptCost)
        newUser == [email     |-> userData.email,
                    firstName |-> userData.firstName,
                    lastName  |-> userData.lastName,
                    googleId  |-> Undefined,
                    avatar    |-> Undefined]
        createdUser == InsertRow(nid, newUser, hashedPassword, t)
    IN  IF existingUser # NoUser
        THEN Outcome(401, "User already exists", NoBody, us, nid)
        ELSE IF ~UniqueOk(us \cup {createdUser})
        THEN DbError(us, nid + 1)
        ELSE Outcome(201, "", login(createdUser, t), us \cup {createdUser}, nid + 1)

PhotoValue(photos) == IF Len(photos) > 0 THEN photos[1].value ELSE Undefined

(* googleLogin whose create step leaves the external id out of the new row *)
googleLogin_CreateDropsGoogleId(us, nid, t, profile) ==
    LET id == profile.id
        email == profile.emails[1].value
        byGoogleId == findUserByGoogleId(us, id)
        byEmail == findUserByEmail(us, email)
        avatar == PhotoValue(profile.photos)
        linked == [byEmail EXCEPT !.googleId = id, !.avatar = avatar]
        newUser == [email     |-> email,
                    googleId  |-> Undefined,
                    firstName |-> profile.name.givenName,
                    lastName  |-> profile.name.familyName,
                    avatar    |-> avatar]
        created == InsertRow(nid, newUser, NoHash, t)
        afterLink == UpdateWhereId(us, byEmail.id, [googleId |-> id, avatar |-> avatar])
    IN  IF byGoogleId # NoUser
        THEN Outcome(302, "", login(byGoogleId, t), us, nid)
        ELSE IF byEmail # NoUser
        THEN Outcome(302, "", login(linked, t), afterLink, nid)
        ELSE Outcome(302, "", login(created, t), us \cup {created}, nid + 1)

(* googleLogin without the lookup by email: whoever is not found by external
   id is inserted *)
googleLogin_NoLink(us, nid, t, profile) ==
    LET id == profile.id
        email == profile.emails[1].value
        byGoogleId == findUserByGoogleId(us, id)
        avatar == PhotoValue(profile.photos)
        newUser == [email     |-> email,
                    googleId  |-> id,
                    firstName |-> profile.name.givenName,
                    lastName  |-> profile.name.familyName,
                    avatar    |-> avatar]
        created == InsertRow(nid, newUser, NoHash, t)
    IN  IF byGoogleId # NoUser
        THEN Outcome(302, "", login(byGoogleId, t), us, nid)
        ELSE IF ~UniqueOk(us \cup {created})
        THEN DbError(us, nid + 1)
        ELSE Outcome(302, "", login(created, t), us \cup {created}, nid + 1)

(* googleLogin that looks the email up before the external id *)
googleLogin_EmailFirst(us, nid, t, profile) ==
    LET id == profile.id
        email == profile.emails[1].value
        byGoogleId == findUserByGoogleId(us, id)
        byEmail == findUserByEmail(us, email)
        avatar == PhotoValue(profile.photos)
        linked == [byEmail EXCEPT !.googleId = id, !.avatar = avatar]
        newUser == [email     |-> email,
                    googleId  |-> id,
                    firstName |-> profile.name.givenName,
                    lastName  |-> profile.name.familyName,
                    avatar    |-> avatar]
        created == InsertRow(nid, newUser, NoHash, t)
        afterLink == UpdateWhereId(us, byEmail.id, [googleId |-> id, avatar |-> avatar])
    IN  IF profile.emails = <<>>
        THEN TypeError(us, nid)
        ELSE IF byEmail # NoUser /\ byEmail.googleId # id
        THEN IF ~UniqueOk(afterLink)
             THEN DbError(us, nid)
             ELSE Outcome(302, "", login(linked, t), afterLink, nid)
        ELSE IF byGoogleId # NoUser
        THEN Outcome(302, "", login(byGoogleId, t), us, nid)
        ELSE IF ~UniqueOk(us \cup {created})
        THEN DbError(us, nid + 1)
        ELSE Outcome(302, "", login(created, t), us \cup {created}, nid + 1)

(* googleLogin whose link step keeps an external id the row already has *)
googleLogin_LinkKeepsGoogleId(us, nid, t, profile) ==
    LET id == profile.id
        email == profile.emails[1].value
        byGoogleId == findUserByGoogleId(us, id)
        byEmail == findUserByEmail(us, email)
        avatar == PhotoValue(profile.photos)
        kept == IF byEmail.googleId = Null THEN id ELSE byEmail.googleId
        linked == [byEmail EXCEPT !.googleId = kept, !.avatar = avatar]
        newUser == [email     |-> email,
                    googleId  |-> id,
                    firstName |-> profile.name.givenName,
                    lastName  |-> profile.name.familyName,
                    avatar    |-> avatar]
        created == InsertRow(nid, newUser, NoHash, t)
        afterLink == UpdateWhereId(us, byEmail.id, [googleId |-> kept, avatar |-> avatar])
    IN  IF profile.emails = <<>>
        THEN TypeError(us, nid)
        ELSE IF byGoogleId # NoUser
        THEN Outcome(302, "", login(byGoogleId, t), us, nid)
        ELSE IF byEmail # NoUser
        THEN IF ~UniqueOk(afterLink)
             THEN DbError(us, nid)
             ELSE Outcome(302, "", login(linked, t), afterLink, nid)
        ELSE IF ~UniqueOk(us \cup {created})
        THEN DbError(us, nid + 1)
        ELSE Outcome(302, "", login(created, t), us \cup {created}, nid + 1)

googleLogin(us, nid, t, profile) ==
    LET id == profile.id
        email == profile.emails[1].value
        byGoogleId == findUserByGoogleId(us, id)
        byEmail == findUserByEmail(us, email)
        avatar == PhotoValue(profile.photos)
        linked == [byEmail EXCEPT !.googleId = id, !.avatar = avatar]
        newUser == [email     |-> email,
                    googleId  |-> id,
                    firstName |-> profile.name.givenName,
                    lastName  |-> profile.name.familyName,
                    avatar    |-> avatar]
        created == InsertRow(nid, newUser, NoHash, t)
        afterLink == UpdateWhereId(us, byEmail.id, [googleId |-> id, avatar |-> avatar])
    IN  IF profile.emails = <<>>
        THEN TypeError(us, nid)
        ELSE IF byGoogleId # NoUser
        THEN Outcome(302, "", login(byGoogleId, t), us, nid)
        ELSE IF byEmail # NoUser
        THEN IF ~UniqueOk(afterLink)
             THEN DbError(us, nid)
             ELSE Outcome(302, "", login(linked, t), afterLink, nid)
        ELSE IF ~UniqueOk(us \cup {created})
        THEN DbError(us, nid + 1)
        ELSE Outcome(302, "", login(created, t), us \cup {created}, nid + 1)

(* changePassword that only tests that the user exists *)
changePassword_NoHashCheck(us, nid, t, userId, currentPassword, newPassword, salt) ==
    LET user == findUserById(us, userId)
        hashedNewPassword == BcryptHashWith(newPassword, salt, BcryptCost)
    IN  IF user = NoUser
        THEN Outcome(401, "User not found or no password set", NoBody, us, nid)
        ELSE IF user.password # NoHash /\ ~BcryptCompare(currentPassword, user.password)
        THEN Outcome(401, "Current password is incorrect", NoBody, us, nid)
        ELSE Outcome(200, "", NoBody,
                     {IF u.id = userId THEN SetPassword(u, hashedNewPassword, t) ELSE u : u \in us},
                     nid)

(* changePassword that writes the new hash before it looks at the result of
   the comparison *)
changePassword_WritesFirst(us, nid, t, userId, currentPassword, newPassword, salt) ==
    LET user == findUserById(us, userId)
        hashedNewPassword == BcryptHashWith(newPassword, salt, BcryptCost)
        written == {IF u.id = userId THEN SetPassword(u, hashedNewPassword, t) ELSE u : u \in us}
    IN  IF user = NoUser \/ user.password = NoHash
        THEN Outcome(401, "User not found or no password set", NoBody, us, nid)
        ELSE IF ~BcryptCompare(currentPassword, user.password)
        THEN Outcome(401, "Current password is incorrect", NoBody, written, nid)
        ELSE Outcome(200, "", NoBody, written, nid)

(* changePassword whose UPDATE has no WHERE: it writes every row *)
changePassword_NoWhere(us, nid, t, userId, currentPassword, newPassword, salt) ==
    LET user == findUserById(us, userId)
        hashedNewPassword == BcryptHashWith(newPassword, salt, BcryptCost)
    IN  IF user = NoUser \/ user.password = NoHash
        THEN Outcome(401, "User not found or no password set", NoBody, us, nid)
        ELSE IF ~BcryptCompare(currentPassword, user.password)
        THEN Outcome(401, "Current password is incorrect", NoBody, us, nid)
        ELSE Outcome(200, "", NoBody,
                     {SetPassword(u, hashedNewPassword, t) : u \in us},
                     nid)

changePassword(us, nid, t, userId, currentPassword, newPassword, salt) ==
    LET user == findUserById(us, userId)
        hashedNewPassword == BcryptHashWith(newPassword, salt, BcryptCost)
    IN  IF user = NoUser \/ user.password = NoHash
        THEN Outcome(401, "User not found or no password set", NoBody, us, nid)
        ELSE IF ~BcryptCompare(currentPassword, user.password)
        THEN Outcome(401, "Current password is incorrect", NoBody, us, nid)
        ELSE Outcome(200, "", NoBody,
                     {IF u.id = userId THEN SetPassword(u, hashedNewPassword, t) ELSE u : u \in us},
                     nid)

-----------------------------------------------------------------------------
(* The login route: the credential guard (it calls validateUser and throws
   UnauthorizedException on null), then AuthService.login *)

LocalStrategyValidate(us, email, password) ==
    LET user == validateUser(us, email, password)
    IN  [throws |-> (user = NoUser), user |-> user]

postLogin(us, nid, t, email, password) ==
    LET guard == LocalStrategyValidate(us, email, password)
    IN  IF guard.throws
        THEN Outcome(401, "Unauthorized", NoBody, us, nid)
        ELSE Outcome(201, "", login(guard.user, t), us, nid)

-----------------------------------------------------------------------------
(* UsersService *)

NotFound(us, nid, id) ==
    Outcome(404, "User with ID " \o ToString(id) \o " not found", NoBody, us, nid)

usersUpdateSet(us, nid, t, id, set) ==
    LET updated == UpdateWhereId(us, id, set)
        row == findUserById(updated, id)
    IN  IF ~UniqueOk(updated)
        THEN DbError(us, nid)
        ELSE IF row = NoUser
        THEN NotFound(us, nid, id)
        ELSE Outcome(200, "", WithoutPassword(row), updated, nid)

usersUpdate(us, nid, t, id, updateUserDto) ==
    usersUpdateSet(us, nid, t, id,
        [f \in DOMAIN updateUserDto \cup {"updatedAt"} |->
            IF f = "updatedAt" THEN t ELSE updateUserDto[f]])

usersRemove(us, nid, id) ==
    LET result == Rows(us, "id", id)
    IN  IF result = {}
        THEN NotFound(us, nid, id)
        ELSE Outcome(204, "", NoBody, us \ result, nid)

usersDeactivate(us, nid, t, id) ==
    usersUpdateSet(us, nid, t, id, [isActive |-> FALSE, updatedAt |-> t])

usersActivate(us, nid, t, id) ==
    usersUpdateSet(us, nid, t, id, [isActive |-> TRUE, updatedAt |-> t])

-----------------------------------------------------------------------------
(* BooksService, over the rows of table "books".  The columns ILIKE searches
   (title, author, description) are sequences of code points; the model's
   DTOs carry no publishedDate and no coverImage, so both columns are NULL. *)

NoBook == [id |-> 0]

NoText == <<0>>     \* SQL NULL in a column of code points

BookOutcome(status, message, body, bs, bid) ==
    [status |-> status, message |-> message, body |-> body, books |-> bs, nextBookId |-> bid]

BookDbError(bs, bid) == BookOutcome(500, "Internal server error", NoBody, bs, bid)

BookNotFound(bs, bid, id) ==
    BookOutcome(404, "Book with ID " \o ToString(id) \o " not found", NoBody, bs, bid)

Field(dto, f, default) == IF f \in DOMAIN dto THEN dto[f] ELSE default

(* price.toString() stored in a numeric(10, 2) column and read back: the
   model's prices are whole cents *)
TwoDigits(n) == IF n < 10 THEN "0" \o ToString(n) ELSE ToString(n)

Numeric(cents) == ToString(cents \div 100) \o "." \o TwoDigits(cents % 100)

IsbnColumnLength == 13

(* isbn varchar(13) NOT NULL, UNIQUE; price numeric(10, 2) *)
BooksOk(bs) ==
    /\ \A b \in bs : Len(b.isbn) <= IsbnColumnLength
    /\ \A b1 \in bs, b2 \in bs : b1.isbn = b2.isbn => b1 = b2

booksCreate(bs, bid, t, createBookDto) ==
    LET book == [id            |-> bid,
                 title         |-> createBookDto.title,
                 author        |-> createBookDto.author,
                 isbn          |-> createBookDto.isbn,
                 description   |-> Field(createBookDto, "description", NoText),
                 price         |-> Numeric(createBookDto.price),
                 stock         |-> Field(createBookDto, "stock", 0),
                 category      |-> Field(createBookDto, "category", Null),
                 publishedDate |-> Null,
                 coverImage    |-> Null,
                 createdAt     |-> t,
                 updatedAt     |-> t]
    IN  IF ~BooksOk(bs \cup {book})
        THEN BookDbError(bs, bid + 1)
        ELSE BookOutcome(201, "", book, bs \cup {book}, bid + 1)

findBookById(bs, id) ==
    LET rows == {b \in bs : b.id = id}
    IN  IF rows = {} THEN NoBook ELSE CHOOSE b \in rows : TRUE

booksFindAll(bs, bid) == BookOutcome(200, "", [rows |-> bs], bs, bid)

booksFindOne(bs, bid, id) ==
    LET book == findBookById(bs, id)
    IN  IF book = NoBook
        THEN BookNotFound(bs, bid, id)
        ELSE BookOutcome(200, "", book, bs, bid)

SetBook(b, set) ==
    [f \in DOMAIN b |->
        IF f \notin DOMAIN set THEN b[f]
        ELSE IF f = "price" THEN Numeric(set[f])
        ELSE set[f]]

(* an UPDATE whose empty result is not looked at *)
booksUpdateSet_NoRowTest(bs, bid, id, set) ==
    LET updated == {IF b.id = id THEN SetBook(b, set) ELSE b : b \in bs}
        updatedBook == findBookById(updated, id)
    IN  IF ~BooksOk(updated)
        THEN BookDbError(bs, bid)
        ELSE BookOutcome(200, "", updatedBook, updated, bid)

booksUpdateSet(bs, bid, id, set) ==
    LET updated == {IF b.id = id THEN SetBook(b, set) ELSE b : b \in bs}
        updatedBook == findBookById(updated, id)
    IN  IF ~BooksOk(updated)
        THEN BookDbError(bs, bid)
        ELSE IF updatedBook = NoBook
        THEN BookNotFound(bs, bid, id)
        ELSE BookOutcome(200, "", updatedBook, updated, bid)

booksUpdate(bs, bid, t, id, updateBookDto) ==
    booksUpdateSet(bs, bid, id,
        [f \in DOMAIN updateBookDto \cup {"updatedAt"} |->
            IF f = "updatedAt" THEN t ELSE updateBookDto[f]])

booksRemove(bs, bid, id) ==
    LET result == {b \in bs : b.id = id}
    IN  IF result = {}
        THEN BookNotFound(bs, bid, id)
        ELSE BookOutcome(204, "", NoBody, bs \ result, bid)

booksUpdateStock(bs, bid, t, id, quantity) ==
    booksUpdateSet(bs, bid, id, [stock |-> quantity, updatedAt |-> t])

booksFindByCategory(bs, bid, category) ==
    BookOutcome(200, "", [rows |-> {b \in bs : b.category = category}], bs, bid)

booksFindByIsbn(bs, bid, isbn) ==
    LET rows == {b \in bs : b.isbn = isbn}
    IN  IF rows = {}
        THEN BookOutcome(404, "Book with ISBN " \o isbn \o " not found", NoBody, bs, bid)
        ELSE BookOutcome(200, "", CHOOSE b \in rows : TRUE, bs, bid)

(* column ILIKE '%query%': % stands for any run of characters, _ for any one
   character, a backslash takes the next character literally, and letters
   match whatever their case; NULL matches nothing *)
Percent == 37
Underscore == 95
Backslash == 92

Lower(c) == IF c \in 65..90 THEN c + 32 ELSE c

RECURSIVE LikeMatch(_, _)
LikeMatch(pat, str) ==
    IF pat = <<>>
    THEN str = <<>>
    ELSE IF Head(pat) = Percent
    THEN LikeMatch(Tail(pat), str) \/ (str # <<>> /\ LikeMatch(pat, Tail(str)))
    ELSE IF str = <<>>
    THEN FALSE
    ELSE IF Head(pat) = Backslash /\ Len(pat) >= 2
    THEN Lower(pat[2]) = Lower(Head(str)) /\ LikeMatch(Tail(Tail(pat)), Tail(str))
    ELSE IF Head(pat) = Underscore
    THEN LikeMatch(Tail(pat), Tail(str))
    ELSE Lower(Head(pat)) = Lower(Head(str)) /\ LikeMatch(Tail(pat), Tail(str))

ILike(column, query) ==
    column # NoText /\ LikeMatch(<<Percent>> \o query \o <<Percent>>, column)

booksFindByAuthor(bs, bid, author) ==
    BookOutcome(200, "", [rows |-> {b \in bs : ILike(b.author, author)}], bs, bid)

booksSearch(bs, bid, query) ==
    BookOutcome(200, "",
        [rows |-> {b \in bs : \/ ILike(b.title, query)
                              \/ ILike(b.author, query)
                              \/ ILike(b.description, query)}],
        bs, bid)

-----------------------------------------------------------------------------
(* The HTTP routes: the guard of each route, then its handler *)

(* a request without an Authorization header *)
NoToken == [sig |-> "none"]

(* passport-jwt with ignoreExpiration false: the signature must be the
   secret's and the clock must be before exp *)
JwtVerify(token, t) == token.sig = JwtSecret /\ t < token.exp

(* validate that also turns away a deactivated user *)
JwtStrategyValidate_ActiveOnly(us, payload) ==
    LET user == findUserById(us, payload.sub)
    IN  IF user # NoUser /\ user.isActive THEN user ELSE NoUser

(* validate(payload): the user of payload.sub, or NoUser for the
   UnauthorizedException *)
JwtStrategyValidate(us, payload) == findUserById(us, payload.sub)

(* the user the guard attaches to the request, or NoUser for its 401 *)
JwtAuthGuard(us, t, token) ==
    IF JwtVerify(token, t) THEN JwtStrategyValidate(us, token.payload) ELSE NoUser

usersFindAll(us, nid) ==
    Outcome(200, "", [rows |-> {WithoutPassword(u) : u \in us}], us, nid)

usersFindOne(us, nid, id) ==
    LET user == findUserById(us, id)
    IN  IF user = NoUser
        THEN NotFound(us, nid, id)
        ELSE Outcome(200, "", WithoutPassword(user), us, nid)

(* What a handler reads and writes, and what a request gets back *)
Store(us, nid, bs, bid, lg) ==
    [users |-> us, nextId |-> nid, books |-> bs, nextBookId |-> bid, log |-> lg]

Response(status, message, body, st) ==
    [status |-> status, message |-> message, body |-> body, store |-> st]

OfUsers(r, st) ==
    Response(r.status, r.message, r.body, [st EXCEPT !.users = r.users, !.nextId = r.nextId])

OfBooks(r, st) ==
    Response(r.status, r.message, r.body,
             [st EXCEPT !.books = r.books, !.nextBookId = r.nextBookId])

(* AuthController.changePassword answers with a message only *)
authChangePassword(st, t, user, changePasswordDto, salt) ==
    LET r == changePassword(st.users, st.nextId, t, user.id,
                            changePasswordDto.currentPassword,
                            changePasswordDto.newPassword, salt)
    IN  IF Returned(r)
        THEN OfUsers([r EXCEPT !.body = [message |-> "Password changed successfully"]], st)
        ELSE OfUsers(r, st)

UsersRoutes ==
    {"GET users", "GET users/:id", "PATCH users/:id", "DELETE users/:id",
     "PATCH users/:id/deactivate", "PATCH users/:id/activate"}

BookReadRoutes ==
    {"GET books", "GET books/search", "GET books/category/:category",
     "GET books/author/:author", "GET books/isbn/:isbn", "GET books/:id"}

BookWriteRoutes ==
    {"POST books", "PATCH books/:id", "PATCH books/:id/stock", "DELETE books/:id"}

(* UseGuards(JwtAuthGuard) with the stock route left without it *)
UseGuardsJwt_StockUnguarded(route) ==
    route \in {"GET auth/profile", "POST auth/change-password"}
              \cup UsersRoutes \cup (BookWriteRoutes \ {"PATCH books/:id/stock"})

(* the routes under UseGuards(JwtAuthGuard): two of AuthController, the
   whole UsersController, four of BooksController *)
UseGuardsJwt(route) ==
    route \in {"GET auth/profile", "POST auth/change-password"}
              \cup UsersRoutes \cup BookWriteRoutes

(* the endpoints the README lists as (protected) *)
ReadmeProtected ==
    {"GET auth/profile", "POST auth/change-password",
     "GET users", "GET users/:id", "PATCH users/:id", "DELETE users/:id",
     "PATCH users/:id/activate", "PATCH users/:id/deactivate",
     "POST books", "PATCH books/:id", "DELETE books/:id", "PATCH books/:id/stock"}

(* The guard of a route answers 401 before the handler runs; resp is what the
   handler answers when it does run *)
Guarded(route, st, t, auth, resp) ==
    IF UseGuardsJwt(route) /\ JwtAuthGuard(st.users, t, auth) = NoUser
    THEN Response(401, "Unauthorized", NoBody, st)
    ELSE resp

(* the token a response hands to the client *)
Issued(resp) ==
    IF resp.status < 400 /\ "access_token" \in DOMAIN resp.body
    THEN {resp.body.access_token}
    ELSE {}

-----------------------------------------------------------------------------
(* Inputs *)

Ids == 1..(MaxId + 1)

(* the ids a caller names: those handed out so far and the next one *)
KnownIds == 1..nextId

RegisterDtos ==
    {[email |-> e, password |-> p, firstName |-> n, lastName |-> Undefined] :
        e \in Emails, p \in Passwords, n \in {"Ada"}}

Profiles ==
    {[id |-> g, emails |-> <<[value |-> e]>>,
      name |-> [givenName |-> "Grace", familyName |-> "Hopper"],
      photos |-> ph] :
        g \in GoogleIds, e \in Emails, ph \in {<<>>, <<[value |-> Photo]>>}}

(* a profile Google sends without any email *)
EmptyEmailProfiles ==
    {[id |-> g, emails |-> <<>>,
      name |-> [givenName |-> "Grace", familyName |-> "Hopper"],
      photos |-> <<>>] :
        g \in GoogleIds}

(* emails[0]?.value of a profile, for the record of a call *)
PrimaryEmail(profile) ==
    IF profile.emails = <<>> THEN Null ELSE profile.emails[1].value

UpdateUserDtos == {[email |-> e] : e \in Emails}

-----------------------------------------------------------------------------
(* Calls in flight.  A method of AuthService awaits the store more than once,
   and between two awaits of one call the store calls of other calls run.  A
   step of a call is one store call, atomic in the store, together with the
   code that runs on its result up to the next await.  bcrypt.compare is
   awaited too: it works on the record the lookup returned and touches no
   store, and it is a step of its own, so other calls may act between the
   lookup and the answer the comparison decides.  bcrypt.hash, awaited after
   it, decides nothing: the step that sends the hash to the store takes it
   along.  bcrypt.hash draws a salt of its own in every call; the step that
   sends the hash to the store is handed the salt drawn.  A call reads the clock (new Date()) when
   it builds an UPDATE, before the UPDATE reaches the store: t is the time of
   the step's store call, at the time the call read. *)

(* a call in flight: its method or route, its position, its argument, the
   token its request carried, what its lookup returned, the time from which
   it may have read the clock for its next store call, the write it has sent
   to the store, the row of its user as that write left it (history, kept for
   changePassword), and once it is done its outcome *)
Proc(op, pc, arg) ==
    [op |-> op, pc |-> pc, arg |-> arg, auth |-> NoToken, user |-> NoUser, since |-> 0,
     wrote |-> "nothing", after |-> NoUser, status |-> 0, message |-> "", body |-> NoBody]

Done(p, r) ==
    [p EXCEPT !.pc = "done", !.wrote = IF p.pc \in {"insert", "update"} THEN p.pc ELSE @,
              !.status = r.status, !.message = r.message, !.body = r.body]

Stepped(p, us, nid) == [proc |-> p, users |-> us, nextId |-> nid]

(* register: the lookup by email, then (after the hash) the INSERT *)
registerStep(p, us, nid, t, salt) ==
    LET userData == p.arg.userData
        existingUser == findUserByEmail(us, userData.email)
        hashedPassword == BcryptHashWith(userData.password, salt, BcryptCost)
        newUser == [email     |-> userData.email,
                    firstName |-> userData.firstName,
                    lastName  |-> userData.lastName,
                    googleId  |-> Undefined,
                    avatar    |-> Undefined]
        createdUser == InsertRow(nid, newUser, hashedPassword, t)
    IN  IF p.pc = "findUserByEmail"
        THEN IF existingUser # NoUser
             THEN Stepped(Done(p, Outcome(401, "User already exists", NoBody, us, nid)),
                          us, nid)
             ELSE Stepped([p EXCEPT !.pc = "insert"], us, nid)
        ELSE IF ~UniqueOk(us \cup {createdUser})
        THEN Stepped(Done(p, DbError(us, nid + 1)), us, nid + 1)
        ELSE Stepped(Done(p, Outcome(201, "", login(createdUser, t), us, nid)),
                     us \cup {createdUser}, nid + 1)

(* googleLogin: the lookup by Google id, the lookup by email, then the
   UPDATE that links or the INSERT that creates *)
googleLoginStep(p, us, nid, t) ==
    LET profile == p.arg
        id == profile.id
        email == profile.emails[1].value
        avatar == PhotoValue(profile.photos)
        byGoogleId == findUserByGoogleId(us, id)
        byEmail == findUserByEmail(us, email)
        linked == [p.user EXCEPT !.googleId = id, !.avatar = avatar]
        afterLink == UpdateWhereId(us, p.user.id, [googleId |-> id, avatar |-> avatar])
        newUser == [email     |-> email,
                    googleId  |-> id,
                    firstName |-> profile.name.givenName,
                    lastName  |-> profile.name.familyName,
                    avatar    |-> avatar]
        created == InsertRow(nid, newUser, NoHash, t)
    IN  CASE p.pc = "findUserByGoogleId" ->
                IF profile.emails = <<>>
                THEN Stepped(Done(p, TypeError(us, nid)), us, nid)
                ELSE IF byGoogleId # NoUser
                THEN Stepped(Done(p, Outcome(302, "", login(byGoogleId, t), us, nid)), us, nid)
                ELSE Stepped([p EXCEPT !.pc = "findUserByEmail"], us, nid)
          [] p.pc = "findUserByEmail" ->
                IF byEmail # NoUser
                THEN Stepped([p EXCEPT !.pc = "update", !.user = byEmail], us, nid)
                ELSE Stepped([p EXCEPT !.pc = "insert"], us, nid)
          [] p.pc = "update" ->
                IF ~UniqueOk(afterLink)
                THEN Stepped(Done(p, DbError(us, nid)), us, nid)
                ELSE Stepped(Done(p, Outcome(302, "", login(linked, t), us, nid)),
                             afterLink, nid)
          [] p.pc = "insert" ->
                IF ~UniqueOk(us \cup {created})
                THEN Stepped(Done(p, DbError(us, nid + 1)), us, nid + 1)
                ELSE Stepped(Done(p, Outcome(302, "", login(created, t), us, nid)),
                             us \cup {created}, nid + 1)

(* changePassword: the lookup by id, with the test for a row and a hash;
   bcrypt.compare of the current password with the hash of the record the
   lookup returned; then the UPDATE ... WHERE id, whose count of rows the
   method does not look at *)
changePasswordStep(p, us, nid, t, at, salt) ==
    LET userId == p.arg.userId
        user == findUserById(us, userId)
        hashedNewPassword == BcryptHashWith(p.arg.newPassword, salt, BcryptCost)
        written == {IF u.id = userId THEN SetPassword(u, hashedNewPassword, at) ELSE u : u \in us}
    IN  CASE p.pc = "findUserById" ->
                IF user = NoUser \/ user.password = NoHash
                THEN Stepped(Done(p, Outcome(401, "User not found or no password set",
                                             NoBody, us, nid)),
                             us, nid)
                ELSE Stepped([p EXCEPT !.pc = "compare", !.user = user], us, nid)
          [] p.pc = "compare" ->
                IF ~BcryptCompare(p.arg.currentPassword, p.user.password)
                THEN Stepped(Done(p, Outcome(401, "Current password is incorrect",
                                             NoBody, us, nid)),
                             us, nid)
                ELSE Stepped([p EXCEPT !.pc = "update", !.since = t], us, nid)
          [] p.pc = "update" ->
                Stepped([Done(p, Outcome(200, "", NoBody, written, nid))
                            EXCEPT !.after = findUserById(written, userId)],
                        written, nid)

(* the login route: LocalStrategy's validateUser, which is the lookup by
   email (no row, or a row without a hash, is null at once and the guard
   throws) and then bcrypt.compare on the record the lookup returned; once
   the comparison has been awaited, the guard's throw or the handler:
   console.log(loginDto) and login of the record the guard attached to the
   request *)
SteppedLog(p, us, nid, lg) == [proc |-> p, users |-> us, nextId |-> nid, log |-> lg]

(* the login route keeping track of the last login in updated-at *)
postLoginStep_TracksLastLogin(p, us, nid, t, lg) ==
    LET user == findUserByEmail(us, p.arg.email)
        guard == LocalStrategyValidate({p.user}, p.arg.email, p.arg.password)
    IN  CASE p.pc = "validateUser" ->
                IF user = NoUser \/ user.password = NoHash
                THEN SteppedLog(Done(p, Outcome(401, "Unauthorized", NoBody, us, nid)),
                                us, nid, lg)
                ELSE SteppedLog([p EXCEPT !.pc = "compare", !.user = user], us, nid, lg)
          [] p.pc = "compare" ->
                IF guard.throws
                THEN SteppedLog(Done(p, Outcome(401, "Unauthorized", NoBody, us, nid)),
                                us, nid, lg)
                ELSE SteppedLog([p EXCEPT !.pc = "login", !.user = guard.user], us, nid, lg)
          [] p.pc = "login" ->
                SteppedLog(Done(p, Outcome(201, "", login(p.user, t), us, nid)),
                           {IF u.id = p.user.id THEN [u EXCEPT !.updatedAt = t] ELSE u : u \in us},
                           nid, lg \cup {p.arg})

postLoginStep(p, us, nid, t, lg) ==
    LET user == findUserByEmail(us, p.arg.email)
        guard == LocalStrategyValidate({p.user}, p.arg.email, p.arg.password)
    IN  CASE p.pc = "validateUser" ->
                IF user = NoUser \/ user.password = NoHash
                THEN SteppedLog(Done(p, Outcome(401, "Unauthorized", NoBody, us, nid)),
                                us, nid, lg)
                ELSE SteppedLog([p EXCEPT !.pc = "compare", !.user = user], us, nid, lg)
          [] p.pc = "compare" ->
                IF guard.throws
                THEN SteppedLog(Done(p, Outcome(401, "Unauthorized", NoBody, us, nid)),
                                us, nid, lg)
                ELSE SteppedLog([p EXCEPT !.pc = "login", !.user = guard.user], us, nid, lg)
          [] p.pc = "login" ->
                SteppedLog(Done(p, Outcome(201, "", login(p.user, t), us, nid)),
                           us, nid, lg \cup {p.arg})

-----------------------------------------------------------------------------
(* The state machine *)

(* What is recorded of a call: its outcome, whether it changed the table and
   how many rows it inserted. *)
Call(op, args, r, us) ==
    [op |-> op, args |-> args, status |-> r.status, message |-> r.message, body |-> r.body,
     changed |-> (r.users # us),
     inserted |-> Cardinality(r.users \ us) - Cardinality(us \ r.users)]

Init ==
    /\ users = {}
    /\ nextId = 1
    /\ now = 0
    /\ regPw = <<>>
    /\ last = [op |-> "none", args |-> <<>>, status |-> 0, message |-> "", body |-> NoBody,
               changed |-> FALSE, inserted |-> 0]
    /\ calls = 0
    /\ tokens = {}
    /\ log = {}
    /\ books = {}
    /\ nextBookId = 1
    /\ procs = <<>>
    /\ pending = EmptyBag

Commit(op, args, r) ==
    /\ calls < MaxSteps
    /\ calls' = calls + 1
    /\ r.nextId <= MaxId + 1
    /\ users' = r.users
    /\ nextId' = r.nextId
    /\ last' = Call(op, args, r, users)
    /\ UNCHANGED <<httpVars, procs, pending>>

Tick ==
    /\ calls < MaxSteps
    /\ calls' = calls + 1
    /\ now' = now + 1
    /\ UNCHANGED <<users, nextId, regPw, last, httpVars, procs, pending>>

(* The calls of AuthService take their awaits one step at a time.  A call's
   first step is its arrival and first store call; a call that is not
   answered by it stays in flight, in pending, until its last step. *)

LoginDtos == {[email |-> e, password |-> p] : e \in Emails, p \in Passwords}

RegisterArgs ==
    {[userData |-> dto] : dto \in {d \in RegisterDtos : d.password # PwLongB}}

PasswordChanges ==
    {[userId |-> id, currentPassword |-> cur, newPassword |-> new] :
        id \in KnownIds, cur \in Passwords, new \in Passwords \ {PwLongB}}

(* the profiles Google sends: a photo comes with one of them, and one has no
   email *)
GoogleProfiles ==
    {p \in Profiles : p.photos = <<>> \/ (p.id = "g-1" /\ PrimaryEmail(p) = "a@b.com")}
    \cup {p \in EmptyEmailProfiles : p.id = "g-1"}

(* what last records as the arguments of a call *)
CallArgs(p) ==
    CASE p.op = "login" -> <<p.arg.email>>
      [] p.op = "register" -> <<p.arg.userData.email>>
      [] p.op = "googleLogin" -> <<p.arg.id, PrimaryEmail(p.arg)>>
      [] p.op = "changePassword" -> <<p.arg.userId>>

(* the calls of one method in flight *)
Pending(op) == {p \in BagToSet(pending) : p.op = op}

(* the step is the call's first: the call arrives *)
Arrives(p) == ~BagIn(p, pending)

(* the routes whose handler reads the clock for the UPDATE it sends *)
ClockRoutes ==
    {"PATCH users/:id", "PATCH users/:id/deactivate", "PATCH users/:id/activate",
     "PATCH books/:id", "PATCH books/:id/stock"}

(* the next store call of p is an UPDATE with updatedAt: new Date() *)
ReadsClock(p) ==
    \/ p.op \in {"changePassword", "POST auth/change-password"} /\ p.pc = "update"
    \/ p.op \in ClockRoutes /\ p.pc = "handler"

(* The times at which p may have read the clock for the store call of its
   next step: where the step sends what new Date() gave, any time since the
   call's last step *)
ClockReads(p) == IF ReadsClock(p) THEN p.since..now ELSE {now}

(* One step of the call p, leaving s: the store is as the step's store call
   left it; a call the step answers is recorded in last and is in flight no
   more. *)
Take(p, s) ==
    /\ Arrives(p) => calls < MaxSteps
    /\ s.nextId <= MaxId + 1
    /\ calls' = IF Arrives(p) THEN calls + 1 ELSE calls
    /\ users' = s.users
    /\ nextId' = s.nextId
    /\ pending' = (IF Arrives(p) THEN pending ELSE pending (-) SetToBag({p}))
                  (+) (IF s.proc.pc = "done" THEN EmptyBag ELSE SetToBag({s.proc}))
    /\ last' = IF s.proc.pc = "done"
               THEN Call(s.proc.op, CallArgs(s.proc),
                         Outcome(s.proc.status, s.proc.message, s.proc.body,
                                 s.users, s.nextId),
                         users)
               ELSE last
    /\ UNCHANGED <<now, tokens, books, nextBookId, procs>>

PostLogin ==
    \E p \in {Proc("login", "validateUser", dto) : dto \in LoginDtos} \cup Pending("login") :
        LET s == postLoginStep(p, users, nextId, now, log)
        IN  /\ Take(p, s)
            /\ log' = s.log
            /\ UNCHANGED regPw

Register ==
    \E p \in {Proc("register", "findUserByEmail", arg) : arg \in RegisterArgs}
                \cup Pending("register") :
        \E salt \in Salts :
            /\ Take(p, registerStep(p, users, nextId, now, salt))
            /\ UNCHANGED <<log, regPw>>

GoogleLogin ==
    \E p \in {Proc("googleLogin", "findUserByGoogleId", profile) : profile \in GoogleProfiles}
                \cup Pending("googleLogin") :
        /\ Take(p, googleLoginStep(p, users, nextId, now))
        /\ UNCHANGED <<log, regPw>>

ChangePassword ==
    \E p \in {Proc("changePassword", "findUserById", arg) : arg \in PasswordChanges}
                \cup Pending("changePassword") :
        \E at \in ClockReads(p), salt \in Salts :
            /\ Take(p, changePasswordStep(p, users, nextId, now, at, salt))
            /\ UNCHANGED <<log, regPw>>

(* The methods of UsersService make one store call.  update, deactivate and
   activate send updatedAt: new Date() with it, read when the call was made:
   at, no later than the time the UPDATE reaches the store. *)
UsersUpdate ==
    \E id \in KnownIds, dto \in UpdateUserDtos, at \in 0..now :
        /\ Commit("users.update", <<id>>, usersUpdate(users, nextId, at, id, dto))
        /\ UNCHANGED <<now, regPw>>

UsersRemove ==
    \E id \in KnownIds :
        /\ Commit("users.remove", <<id>>, usersRemove(users, nextId, id))
        /\ UNCHANGED <<now, regPw>>

UsersDeactivate ==
    \E id \in KnownIds, at \in 0..now :
        /\ Commit("users.deactivate", <<id>>, usersDeactivate(users, nextId, at, id))
        /\ UNCHANGED <<now, regPw>>

UsersActivate ==
    \E id \in KnownIds, at \in 0..now :
        /\ Commit("users.activate", <<id>>, usersActivate(users, nextId, at, id))
        /\ UNCHANGED <<now, regPw>>

Next ==
    \/ Tick
    \/ PostLogin
    \/ Register
    \/ GoogleLogin
    \/ ChangePassword
    \/ UsersUpdate
    \/ UsersRemove
    \/ UsersDeactivate
    \/ UsersActivate

Spec == Init /\ [][Next]_vars

(* The same steps, with the history of register kept: regPw[id] is what
   register was given for the user it created, as long as no changePassword
   for id has succeeded. *)
RegisterTracked ==
    \E p \in {Proc("register", "findUserByEmail", arg) : arg \in RegisterArgs}
                \cup Pending("register") :
        \E salt \in Salts :
            LET s == registerStep(p, users, nextId, now, salt)
            IN  /\ Take(p, s)
                /\ regPw' = IF s.proc.pc = "done" /\ Returned(s.proc)
                            THEN (s.proc.body.user.id :>
                                     [email |-> p.arg.userData.email,
                                      password |-> p.arg.userData.password]) @@ regPw
                            ELSE regPw
                /\ UNCHANGED log

ChangePasswordTracked ==
    \E p \in {Proc("changePassword", "findUserById", arg) : arg \in PasswordChanges}
                \cup Pending("changePassword") :
        \E at \in ClockReads(p), salt \in Salts :
            LET s == changePasswordStep(p, users, nextId, now, at, salt)
            IN  /\ Take(p, s)
                /\ regPw' = IF s.proc.pc = "done" /\ Returned(s.proc)
                            THEN [id \in DOMAIN regPw \ {p.arg.userId} |-> regPw[id]]
                            ELSE regPw
                /\ UNCHANGED log

NextHistory ==
    \/ Tick
    \/ PostLogin
    \/ RegisterTracked
    \/ GoogleLogin
    \/ ChangePasswordTracked
    \/ UsersUpdate
    \/ UsersRemove
    \/ UsersDeactivate
    \/ UsersActivate

SpecHistory == Init /\ [][NextHistory]_vars

-----------------------------------------------------------------------------
(* The program seen from its HTTP routes.  A request takes its awaits one
   step at a time, the guard's lookup of the token's user first, and the
   steps of the requests in flight interleave; time passes between them.
   Issued tokens stay with the clients, who may present any of them, none, or
   one signed with another secret. *)

MaxRequests == 3    \* requests and passings of time in one run
MaxBooks == 2       \* book rows ever inserted

Dune == <<68, 117, 110, 101>>
Herbert == <<72, 101, 114, 98, 101, 114, 116>>

(* two ISBN-13 and one in its hyphenated form, which IsISBN accepts too *)
Isbns == {"9783161484100", "9780306406157", "978-3-16-148410-0"}

CreateBookDtos ==
    {[title |-> Dune, author |-> Herbert, isbn |-> i, price |-> 1250] :
        i \in {"9783161484100", "978-3-16-148410-0"}}
    \cup {[title |-> Dune, author |-> Herbert, isbn |-> "9780306406157", price |-> 5,
           stock |-> 3, category |-> "scifi", description |-> Herbert]}

UpdateBookDtos == {[price |-> 999], [isbn |-> "9783161484100"]}

(* "dU", "____" and "z" *)
Queries == {<<100, 85>>, <<95, 95, 95, 95>>, <<122>>}

KnownBookIds == 1..nextBookId

ForgedToken ==
    [payload |-> [sub |-> 1, email |-> "a@b.com", firstName |-> "Ada", lastName |-> Null],
     iat |-> 0, exp |-> 100 * JwtExpiresIn, sig |-> "guess"]

Auths == tokens \cup {NoToken, ForgedToken}

(* the passwords the requests of this specification carry *)
HttpPasswords == {PwShort, PwLongA}

Requests(route) ==
    CASE route = "POST auth/register" ->
            {[body |-> dto] : dto \in {d \in RegisterDtos : d.password = PwShort}}
      [] route = "POST auth/login" ->
            {[body |-> [email |-> e, password |-> p]] : e \in Emails, p \in HttpPasswords}
      [] route \in {"GET auth/google", "GET auth/google/callback"} ->
            {[profile |-> p] :
                p \in {q \in Profiles \cup EmptyEmailProfiles :
                          q.id = "g-1" /\ q.photos = <<>> /\ PrimaryEmail(q) # "c@d.com"}}
      [] route = "POST auth/change-password" ->
            {[body |-> [currentPassword |-> c, newPassword |-> n]] :
                c \in HttpPasswords, n \in {PwLongA}}
      [] route \in {"GET auth/profile", "GET users", "GET books"} ->
            {NoBody}
      [] route \in {"GET users/:id", "DELETE users/:id",
                    "PATCH users/:id/deactivate", "PATCH users/:id/activate"} ->
            {[id |-> i] : i \in KnownIds}
      [] route = "PATCH users/:id" ->
            {[id |-> i, body |-> [email |-> "c@d.com"]] : i \in KnownIds}
      [] route = "GET books/search" ->
            {[q |-> q] : q \in Queries}
      [] route = "GET books/category/:category" ->
            {[category |-> c] : c \in {"scifi", "poetry"}}
      [] route = "GET books/author/:author" ->
            {[author |-> q] : q \in Queries}
      [] route = "GET books/isbn/:isbn" ->
            {[isbn |-> i] : i \in Isbns}
      [] route \in {"GET books/:id", "DELETE books/:id"} ->
            {[id |-> i] : i \in KnownBookIds}
      [] route = "POST books" ->
            {[body |-> dto] : dto \in CreateBookDtos}
      [] route = "PATCH books/:id" ->
            {[id |-> i, body |-> dto] : i \in KnownBookIds, dto \in UpdateBookDtos}
      [] route = "PATCH books/:id/stock" ->
            {[id |-> i, quantity |-> 7] : i \in KnownBookIds}

CurrentStore == Store(users, nextId, books, nextBookId, log)

(* the record of a request: its route, the token it carried, its status and
   message, and whether it changed anything *)
HttpCall(route, auth, resp, st) ==
    [op |-> route, args |-> <<auth>>, status |-> resp.status,
     message |-> resp.message, body |-> NoBody,
     changed |-> (resp.store # st),
     inserted |-> Cardinality(resp.store.users \ st.users)
                  - Cardinality(st.users \ resp.store.users)]

(* A request as it arrives: at the guard of its route when the route is
   under UseGuards(JwtAuthGuard), where passport first verifies its token,
   else at the first store call of its handler *)
HttpProc(route, entry, auth, arg) ==
    [Proc(route, IF UseGuardsJwt(route) THEN "verify" ELSE entry, arg) EXCEPT !.auth = auth]

(* what a step of a request leaves: the request, and the store *)
HttpStepped(p, st) == [proc |-> p, store |-> st]

(* the step answers the request with resp *)
Answer(p, resp) == HttpStepped(Done(p, resp), resp.store)

(* a step of a service call, seen from the route *)
OfStep(s, st) == HttpStepped(s.proc, [st EXCEPT !.users = s.users, !.nextId = s.nextId])

(* the request passes from the guard to entry at time t; the time is kept
   where the handler reads the clock before its store call *)
Passed(p, entry, t) ==
    LET q == [p EXCEPT !.pc = entry, !.since = 0]
    IN  IF ReadsClock(q) THEN [q EXCEPT !.since = t] ELSE q

(* JwtAuthGuard.  When the request arrives passport verifies its token by
   the clock of that moment: its 401, or JwtStrategy.validate awaits the
   lookup of the token's user.  When the store has served the lookup: its
   401, or the request passes on to its handler. *)
jwtGuardStep(p, st, t, entry) ==
    IF p.pc = "verify"
    THEN IF JwtVerify(p.auth, t)
         THEN HttpStepped([p EXCEPT !.pc = "guard"], st)
         ELSE Answer(p, Response(401, "Unauthorized", NoBody, st))
    ELSE IF JwtStrategyValidate(st.users, p.auth.payload) = NoUser
         THEN Answer(p, Response(401, "Unauthorized", NoBody, st))
         ELSE HttpStepped(Passed(p, entry, t), st)

(* a route whose handler makes one store call: the guard's steps where the
   route has a guard, then the handler's, which answers with resp *)
GuardThen(p, st, t, resp) ==
    IF p.pc \in {"verify", "guard"} THEN jwtGuardStep(p, st, t, "handler") ELSE Answer(p, resp)

(* GET auth/profile: the handler returns the user the guard attached and
   awaits nothing, so it runs in the step of the guard's lookup *)
authProfileStep(p, st, t) ==
    LET user == JwtStrategyValidate(st.users, p.auth.payload)
    IN  IF p.pc = "verify" \/ user = NoUser
        THEN jwtGuardStep(p, st, t, "handler")
        ELSE Answer(p, Response(200, "", WithoutPassword(user), st))

(* the change-password route answering with a fresh token *)
authChangePasswordStep_Reissues(p, st, t, at, salt) ==
    LET user == JwtStrategyValidate(st.users, p.auth.payload)
        s == changePasswordStep(p, st.users, st.nextId, t, at, salt)
    IN  IF p.pc \in {"verify", "guard"}
        THEN jwtGuardStep([p EXCEPT !.arg = IF p.pc = "verify" \/ user = NoUser
                                             THEN p.arg
                                             ELSE [userId |-> user.id,
                                                   currentPassword |-> p.arg.body.currentPassword,
                                                   newPassword |-> p.arg.body.newPassword]],
                          st, t, "findUserById")
        ELSE IF s.proc.pc = "done" /\ Returned(s.proc)
        THEN OfStep([s EXCEPT !.proc.body = login(p.user, t)], st)
        ELSE OfStep(s, st)

(* POST auth/change-password: the guard, then changePassword for the id of
   the user the guard attached, with the DTO's passwords; the handler answers
   a success with a message only *)
authChangePasswordStep(p, st, t, at, salt) ==
    LET user == JwtStrategyValidate(st.users, p.auth.payload)
        s == changePasswordStep(p, st.users, st.nextId, t, at, salt)
    IN  IF p.pc \in {"verify", "guard"}
        THEN jwtGuardStep([p EXCEPT !.arg = IF p.pc = "verify" \/ user = NoUser
                                             THEN p.arg
                                             ELSE [userId |-> user.id,
                                                   currentPassword |-> p.arg.body.currentPassword,
                                                   newPassword |-> p.arg.body.newPassword]],
                          st, t, "findUserById")
        ELSE IF s.proc.pc = "done" /\ Returned(s.proc)
        THEN OfStep([s EXCEPT !.proc.body = [message |-> "Password changed successfully"]], st)
        ELSE OfStep(s, st)

(* GET auth/google with the code Google hands out: GoogleAuthGuard has
   GoogleStrategy.validate await googleLogin with the profile of the code,
   and googleAuth then returns nothing, so a success is answered 200 without
   a body and the token googleLogin made is dropped *)
googleAuthStep(p, st, t) ==
    LET s == googleLoginStep(p, st.users, st.nextId, t)
    IN  IF s.proc.pc = "done" /\ Returned(s.proc)
        THEN OfStep([s EXCEPT !.proc.status = 200, !.proc.body = NoBody], st)
        ELSE OfStep(s, st)

(* the routes a client tries a forged token on: one of each controller *)
ForgedOn == {"GET auth/profile", "DELETE users/:id", "POST books"}

(* the requests of a route that may arrive *)
Incoming(route, entry) ==
    {HttpProc(route, entry, auth, req) :
        auth \in {a \in Auths : a = ForgedToken => route \in ForgedOn},
        req \in Requests(route)}

(* One step of the request p, leaving h: the store is as the step's store
   call left it; a request the step answers is recorded in last, its token if
   it got one is with the client, and it is in flight no more. *)
Serve(p, h) ==
    /\ Arrives(p) => calls < MaxRequests
    /\ UseGuardsJwt(p.op) \/ p.auth = NoToken
    /\ h.store.nextId <= MaxId + 1
    /\ h.store.nextBookId <= MaxBooks + 1
    /\ calls' = IF Arrives(p) THEN calls + 1 ELSE calls
    /\ users' = h.store.users
    /\ nextId' = h.store.nextId
    /\ books' = h.store.books
    /\ nextBookId' = h.store.nextBookId
    /\ log' = h.store.log
    /\ pending' = (IF Arrives(p) THEN pending ELSE pending (-) SetToBag({p}))
                  (+) (IF h.proc.pc = "done" THEN EmptyBag ELSE SetToBag({h.proc}))
    /\ tokens' = IF h.proc.pc = "done" THEN tokens \cup Issued(h.proc) ELSE tokens
    /\ last' = IF h.proc.pc = "done"
               THEN HttpCall(p.op, p.auth,
                             Response(h.proc.status, h.proc.message, h.proc.body, h.store),
                             CurrentStore)
               ELSE last
    /\ UNCHANGED <<now, regPw, procs>>

(* time passes: a moment, or a token's lifetime *)
Elapse ==
    \E d \in {1, JwtExpiresIn} :
        /\ calls < MaxRequests
        /\ calls' = calls + 1
        /\ now' = now + d
        /\ UNCHANGED <<users, nextId, regPw, last, httpVars, procs, pending>>

PostAuthRegister ==
    \E p \in {HttpProc("POST auth/register", "findUserByEmail", auth,
                       [userData |-> req.body]) :
                  auth \in Auths, req \in Requests("POST auth/register")}
                \cup Pending("POST auth/register") :
        \E salt \in Salts :
            Serve(p, OfStep(registerStep(p, users, nextId, now, salt), CurrentStore))

PostAuthLogin ==
    \E p \in {HttpProc("POST auth/login", "validateUser", auth, req.body) :
                  auth \in Auths, req \in Requests("POST auth/login")}
                \cup Pending("POST auth/login") :
        LET s == postLoginStep(p, users, nextId, now, log)
        IN  Serve(p, OfStep(s, [CurrentStore EXCEPT !.log = s.log]))

GetAuthGoogle ==
    \E p \in {HttpProc("GET auth/google", "findUserByGoogleId", auth, req.profile) :
                  auth \in Auths, req \in Requests("GET auth/google")}
                \cup Pending("GET auth/google") :
        Serve(p, googleAuthStep(p, CurrentStore, now))

GetAuthGoogleCallback ==
    \E p \in {HttpProc("GET auth/google/callback", "findUserByGoogleId", auth, req.profile) :
                  auth \in Auths, req \in Requests("GET auth/google/callback")}
                \cup Pending("GET auth/google/callback") :
        Serve(p, OfStep(googleLoginStep(p, users, nextId, now), CurrentStore))

GetAuthProfile ==
    \E p \in Incoming("GET auth/profile", "handler") \cup Pending("GET auth/profile") :
        Serve(p, authProfileStep(p, CurrentStore, now))

PostAuthChangePassword ==
    \E p \in Incoming("POST auth/change-password", "findUserById")
                \cup Pending("POST auth/change-password") :
        \E at \in ClockReads(p), salt \in Salts :
            Serve(p, authChangePasswordStep(p, CurrentStore, now, at, salt))

GetUsers ==
    \E p \in Incoming("GET users", "handler") \cup Pending("GET users") :
        \E at \in ClockReads(p) :
            Serve(p, GuardThen(p, CurrentStore, now,
                         OfUsers(usersFindAll(users, nextId), CurrentStore)))

GetUser ==
    \E p \in Incoming("GET users/:id", "handler") \cup Pending("GET users/:id") :
        \E at \in ClockReads(p) :
            Serve(p, GuardThen(p, CurrentStore, now,
                         OfUsers(usersFindOne(users, nextId, p.arg.id), CurrentStore)))

PatchUser ==
    \E p \in Incoming("PATCH users/:id", "handler") \cup Pending("PATCH users/:id") :
        \E at \in ClockReads(p) :
            Serve(p, GuardThen(p, CurrentStore, now,
                         OfUsers(usersUpdate(users, nextId, at, p.arg.id, p.arg.body),
                                 CurrentStore)))

DeleteUser ==
    \E p \in Incoming("DELETE users/:id", "handler") \cup Pending("DELETE users/:id") :
        \E at \in ClockReads(p) :
            Serve(p, GuardThen(p, CurrentStore, now,
                         OfUsers(usersRemove(users, nextId, p.arg.id), CurrentStore)))

PatchUserDeactivate ==
    \E p \in Incoming("PATCH users/:id/deactivate", "handler") \cup Pending("PATCH users/:id/deactivate") :
        \E at \in ClockReads(p) :
            Serve(p, GuardThen(p, CurrentStore, now,
                         OfUsers(usersDeactivate(users, nextId, at, p.arg.id), CurrentStore)))

PatchUserActivate ==
    \E p \in Incoming("PATCH users/:id/activate", "handler") \cup Pending("PATCH users/:id/activate") :
        \E at \in ClockReads(p) :
            Serve(p, GuardThen(p, CurrentStore, now,
                         OfUsers(usersActivate(users, nextId, at, p.arg.id), CurrentStore)))

GetBooks ==
    \E p \in Incoming("GET books", "handler") \cup Pending("GET books") :
        \E at \in ClockReads(p) :
            Serve(p, GuardThen(p, CurrentStore, now,
                         OfBooks(booksFindAll(books, nextBookId), CurrentStore)))

GetBooksSearch ==
    \E p \in Incoming("GET books/search", "handler") \cup Pending("GET books/search") :
        \E at \in ClockReads(p) :
            Serve(p, GuardThen(p, CurrentStore, now,
                         OfBooks(booksSearch(books, nextBookId, p.arg.q), CurrentStore)))

GetBooksCategory ==
    \E p \in Incoming("GET books/category/:category", "handler") \cup Pending("GET books/category/:category") :
        \E at \in ClockReads(p) :
            Serve(p, GuardThen(p, CurrentStore, now,
                         OfBooks(booksFindByCategory(books, nextBookId, p.arg.category),
                                 CurrentStore)))

GetBooksAuthor ==
    \E p \in Incoming("GET books/author/:author", "handler") \cup Pending("GET books/author/:author") :
        \E at \in ClockReads(p) :
            Serve(p, GuardThen(p, CurrentStore, now,
                         OfBooks(booksFindByAuthor(books, nextBookId, p.arg.author),
                                 CurrentStore)))

GetBooksIsbn ==
    \E p \in Incoming("GET books/isbn/:isbn", "handler") \cup Pending("GET books/isbn/:isbn") :
        \E at \in ClockReads(p) :
            Serve(p, GuardThen(p, CurrentStore, now,
                         OfBooks(booksFindByIsbn(books, nextBookId, p.arg.isbn), CurrentStore)))

GetBook ==
    \E p \in Incoming("GET books/:id", "handler") \cup Pending("GET books/:id") :
        \E at \in ClockReads(p) :
            Serve(p, GuardThen(p, CurrentStore, now,
                         OfBooks(booksFindOne(books, nextBookId, p.arg.id), CurrentStore)))

PostBooks ==
    \E p \in Incoming("POST books", "handler") \cup Pending("POST books") :
        \E at \in ClockReads(p) :
            Serve(p, GuardThen(p, CurrentStore, now,
                         OfBooks(booksCreate(books, nextBookId, now, p.arg.body), CurrentStore)))

PatchBook ==
    \E p \in Incoming("PATCH books/:id", "handler") \cup Pending("PATCH books/:id") :
        \E at \in ClockReads(p) :
            Serve(p, GuardThen(p, CurrentStore, now,
                         OfBooks(booksUpdate(books, nextBookId, at, p.arg.id, p.arg.body),
                                 CurrentStore)))

PatchBookStock ==
    \E p \in Incoming("PATCH books/:id/stock", "handler") \cup Pending("PATCH books/:id/stock") :
        \E at \in ClockReads(p) :
            Serve(p, GuardThen(p, CurrentStore, now,
                         OfBooks(booksUpdateStock(books, nextBookId, at, p.arg.id,
                                                  p.arg.quantity),
                                 CurrentStore)))

DeleteBook ==
    \E p \in Incoming("DELETE books/:id", "handler") \cup Pending("DELETE books/:id") :
        \E at \in ClockReads(p) :
            Serve(p, GuardThen(p, CurrentStore, now,
                         OfBooks(booksRemove(books, nextBookId, p.arg.id), CurrentStore)))

NextHttp ==
    \/ Elapse
    \/ PostAuthRegister
    \/ PostAuthLogin
    \/ GetAuthGoogle
    \/ GetAuthGoogleCallback
    \/ GetAuthProfile
    \/ PostAuthChangePassword
    \/ GetUsers
    \/ GetUser
    \/ PatchUser
    \/ DeleteUser
    \/ PatchUserDeactivate
    \/ PatchUserActivate
    \/ GetBooks
    \/ GetBooksSearch
    \/ GetBooksCategory
    \/ GetBooksAuthor
    \/ GetBooksIsbn
    \/ GetBook
    \/ PostBooks
    \/ PatchBook
    \/ PatchBookStock
    \/ DeleteBook

SpecHttp == Init /\ [][NextHttp]_vars

-----------------------------------------------------------------------------
(* The store calls of register and googleLogin one at a time: each await of
   a method is a step of its own, and the steps of the calls in flight
   interleave.  Every store call is atomic and meets the constraints of the
   table as it is at that moment.  UsersService.update is one store call. *)

MaxCalls == 3       \* calls started in one run

(* the arguments of the interleaved calls *)
RaceRegisterArgs ==
    {[userData |-> dto] : dto \in {d \in RegisterDtos : d.password = PwShort}}

RaceProfiles == {p \in Profiles : p.photos = <<>>}

InFlight == {i \in DOMAIN procs : procs[i].pc # "done"}

Start(p) ==
    /\ procs' = Append(procs, p)
    /\ UNCHANGED <<users, nextId, now, regPw, last, calls, httpVars, pending>>

StartRegister ==
    /\ Len(procs) < MaxCalls
    /\ \E arg \in RaceRegisterArgs : Start(Proc("register", "findUserByEmail", arg))

StartGoogleLogin ==
    /\ Len(procs) < MaxCalls
    /\ \E profile \in RaceProfiles :
           Start(Proc("googleLogin", "findUserByGoogleId", profile))

Advance(i, s) ==
    /\ s.nextId <= MaxId + 1
    /\ procs' = [procs EXCEPT ![i] = s.proc]
    /\ users' = s.users
    /\ nextId' = s.nextId
    /\ UNCHANGED <<now, regPw, last, calls, httpVars, pending>>

RegisterStep ==
    \E i \in InFlight, salt \in Salts :
        /\ procs[i].op = "register"
        /\ Advance(i, registerStep(procs[i], users, nextId, now, salt))

GoogleLoginStep ==
    \E i \in InFlight :
        /\ procs[i].op = "googleLogin"
        /\ Advance(i, googleLoginStep(procs[i], users, nextId, now))

(* UsersService.update: one UPDATE ... RETURNING, so one step *)
UsersUpdateCall ==
    \E id \in KnownIds, dto \in UpdateUserDtos :
        LET r == usersUpdate(users, nextId, now, id, dto)
        IN  /\ Len(procs) < MaxCalls
            /\ procs' = Append(procs, Done(Proc("users.update", "update", [id |-> id, dto |-> dto]), r))
            /\ users' = r.users
            /\ nextId' = r.nextId
            /\ UNCHANGED <<now, regPw, last, calls, httpVars, pending>>

NextRace ==
    \/ StartRegister
    \/ StartGoogleLogin
    \/ RegisterStep
    \/ GoogleLoginStep
    \/ UsersUpdateCall

SpecRace == Init /\ [][NextRace]_vars

-----------------------------------------------------------------------------
(* The store calls of changePassword one at a time, among those of register
   and whole calls of UsersService.remove: the lookup, the awaited
   bcrypt.compare on the record the lookup returned, and the UPDATE, which
   takes the hash along. *)

ChangePasswordArgs ==
    {[userId |-> id, currentPassword |-> cur, newPassword |-> new] :
        id \in KnownIds, cur \in HttpPasswords, new \in Passwords}

StartChangePassword ==
    /\ Len(procs) < MaxCalls
    /\ \E arg \in ChangePasswordArgs : Start(Proc("changePassword", "findUserById", arg))

ChangePasswordStep ==
    \E i \in InFlight, salt \in Salts :
        /\ procs[i].op = "changePassword"
        /\ Advance(i, changePasswordStep(procs[i], users, nextId, now, now, salt))

(* UsersService.remove: one DELETE ... RETURNING, so one step *)
UsersRemoveCall ==
    \E id \in KnownIds :
        LET r == usersRemove(users, nextId, id)
        IN  /\ Len(procs) < MaxCalls
            /\ procs' = Append(procs, Done(Proc("users.remove", "delete", [id |-> id]), r))
            /\ users' = r.users
            /\ nextId' = r.nextId
            /\ UNCHANGED <<now, regPw, last, calls, httpVars, pending>>

NextChange ==
    \/ StartRegister
    \/ RegisterStep
    \/ StartChangePassword
    \/ ChangePasswordStep
    \/ UsersRemoveCall

SpecChange == Init /\ [][NextChange]_vars

-----------------------------------------------------------------------------
(* Properties.  A property about a call is stated over the call's outcome in
   every reachable state and for every input, so it covers the calls a run of
   MaxSteps steps has no step left to make. *)

Later == {now, now + 1}

(* No call is in flight.  A call in flight has written nothing, every method
   writing in its last store call only, so the tables of these states are all
   the tables the steps reach; a property of a call that runs with no step of
   another call between its own is stated of these states. *)
Quiet == pending = EmptyBag

HasRow(id) == findUserById(users, id) # NoUser

(* the outcome of a call whose steps run with no step of another call between
   them (no method takes more than three), at one time *)
Alone(Step(_, _, _, _), p, us, nid, t) ==
    LET s1 == Step(p, us, nid, t)
        s2 == IF s1.proc.pc = "done" THEN s1 ELSE Step(s1.proc, s1.users, s1.nextId, t)
        s3 == IF s2.proc.pc = "done" THEN s2 ELSE Step(s2.proc, s2.users, s2.nextId, t)
    IN  Outcome(s3.proc.status, s3.proc.message, s3.proc.body, s3.users, s3.nextId)

loginStepNoLog(p, us, nid, t) ==
    LET s == postLoginStep(p, us, nid, t, {})
    IN  Stepped(s.proc, s.users, s.nextId)

(* The operators register, googleLogin, changePassword and postLogin are the
   methods run alone: each equals its steps taken one after the other. *)
StepsAloneAreTheCall ==
    Quiet =>
    /\ \A arg \in RegisterArgs, salt \in Salts :
           Alone(LAMBDA p, us, nid, t : registerStep(p, us, nid, t, salt),
                 Proc("register", "findUserByEmail", arg), users, nextId, now)
             = register(users, nextId, now, arg.userData, salt)
    /\ \A profile \in GoogleProfiles :
           Alone(googleLoginStep, Proc("googleLogin", "findUserByGoogleId", profile),
                 users, nextId, now)
             = googleLogin(users, nextId, now, profile)
    /\ \A arg \in PasswordChanges, salt \in Salts :
           Alone(LAMBDA p, us, nid, t : changePasswordStep(p, us, nid, t, t, salt),
                 Proc("changePassword", "findUserById", arg), users, nextId, now)
             = changePassword(users, nextId, now, arg.userId, arg.currentPassword,
                              arg.newPassword, salt)
    /\ \A dto \in LoginDtos :
           Alone(loginStepNoLog, Proc("login", "validateUser", dto), users, nextId, now)
             = postLogin(users, nextId, now, dto.email, dto.password)

LastOk(op) == last.op = op /\ Returned(last)

(* C1 (under SpecHistory): for every user created by register(email, p) whose
   password has not been changed since, validateUser(email, p) returns that user and
   validateUser(email, q) returns null for every q other than p. *)
C1_RegisteredValidatesOnlyItsPassword ==
    \A id \in DOMAIN regPw :
        /\ validateUser(users, regPw[id].email, regPw[id].password).id = id
        /\ \A q \in Passwords \ {regPw[id].password} :
               validateUser(users, regPw[id].email, q) = NoUser

(* C2: validateUser returns the one negative result, and the login route the
   one 401 without a token, when no user has the email, when the user's
   stored hash is null, and when the hash does not verify the plaintext. *)
C2_SingleNegativeResult ==
    Quiet =>
    \A e \in Emails, p \in Passwords :
        LET user == findUserByEmail(users, e)
        IN  (\/ user = NoUser
             \/ user.password = NoHash
             \/ ~BcryptCompare(p, user.password))
            => /\ validateUser(users, e, p) = NoUser
               /\ postLogin(users, nextId, now, e, p)
                    = Outcome(401, "Unauthorized", NoBody, users, nextId)

C2_Witness ==
    /\ last.op = "login"
    /\ last.status = 401
    /\ \E u \in users : u.email = last.args[1] /\ u.password = NoHash
    /\ \E u \in users : u.password # NoHash

(* C3: a register that follows a successful register of the same email fails
   with 401 "User already exists", inserts nothing, and leaves exactly one
   row with that email, the one the first call created. *)
C3_SecondRegisterConflicts ==
    Quiet =>
    \A d1 \in RegisterDtos, s1 \in Salts :
        LET r1 == register(users, nextId, now, d1, s1)
        IN  Returned(r1)
            => \A d2 \in {d \in RegisterDtos : d.email = d1.email}, s2 \in Salts, t2 \in Later :
                   LET r2 == register(r1.users, r1.nextId, t2, d2, s2)
                   IN  /\ r2.status = 401
                       /\ r2.message = "User already exists"
                       /\ r2.body = NoBody
                       /\ r2.users = r1.users
                       /\ r2.nextId = r1.nextId
                       /\ Cardinality(Rows(r2.users, "email", d1.email)) = 1
                       /\ WithoutPassword(findUserByEmail(r2.users, d1.email)) = r1.body.user
                       /\ BcryptCompare(d1.password, findUserByEmail(r2.users, d1.email).password)

C3_Witness ==
    /\ last.op = "register"
    /\ last.status = 401
    /\ last.message = "User already exists"
    /\ \E u \in users :
           /\ u.password # NoHash
           /\ Rows(users, "email", last.args[1]) = {u}

(* C4: for every user record given to login, with or without a password
   hash, the token's subject is the record's id and its email claim the
   record's email, and the returned user is the record less its password. *)
C4_LoginTokenAndPublicUser ==
    /\ \A u \in users, t \in Later :
           LET r == login(u, t)
           IN  /\ r.access_token.payload.sub = u.id
               /\ r.access_token.payload.email = u.email
               /\ "password" \notin DOMAIN r.user
               /\ DOMAIN r.user = DOMAIN u \ {"password"}
               /\ \A f \in DOMAIN r.user : r.user[f] = u[f]
    /\ (Returned(last) /\ last.op \in {"login", "register", "googleLogin"})
           => /\ last.body.access_token.payload.sub = last.body.user.id
              /\ last.body.access_token.payload.email = last.body.user.email
              /\ "password" \notin DOMAIN last.body.user

C4_Witness ==
    /\ LastOk("googleLogin")
    /\ \E u \in users : u.id = last.body.user.id /\ u.password = NoHash
    /\ \E u \in users : u.password # NoHash

(* C5: register with an email no user holds inserts exactly one row, with
   that email, a hash that verifies the plaintext and is not the plaintext,
   and active = true, and returns login of that row. *)
C5_RegisterInsertsHashedActiveRow ==
    Quiet =>
    \A d \in RegisterDtos, s \in Salts :
        findUserByEmail(users, d.email) = NoUser
        => LET r == register(users, nextId, now, d, s)
               new == r.users \ users
           IN  /\ Returned(r)
               /\ users \subseteq r.users
               /\ Cardinality(new) = 1
               /\ \A row \in new :
                      /\ row.email = d.email
                      /\ row.id \notin {u.id : u \in users}
                      /\ row.password # NoHash
                      /\ row.password # d.password
                      /\ BcryptCompare(d.password, row.password)
                      /\ row.isActive = TRUE
                      /\ r.body = login(row, now)
                      /\ r.body.access_token.payload.sub = row.id
                      /\ "password" \notin DOMAIN r.body.user

C5_Witness ==
    /\ LastOk("register")
    /\ last.inserted = 1
    /\ \E u \in users :
           /\ u.id = last.body.user.id
           /\ u.email = last.args[1]
           /\ u.isActive
           /\ u.password # NoHash

(* C6: two googleLogin calls in a row with the same profile return tokens
   for the same user id, and the second inserts no row and leaves the table
   as the first left it. *)
C6_GoogleLoginIdempotent ==
    Quiet =>
    \A profile \in Profiles, t2 \in Later :
        LET r1 == googleLogin(users, nextId, now, profile)
            r2 == googleLogin(r1.users, r1.nextId, t2, profile)
        IN  /\ Returned(r1)
            /\ Returned(r2)
            /\ r2.body.access_token.payload.sub = r1.body.access_token.payload.sub
            /\ r2.body.user.id = r1.body.user.id
            /\ r2.users = r1.users
            /\ r2.nextId = r1.nextId
            /\ Cardinality(r2.users) = Cardinality(r1.users)

C6_Witness ==
    /\ LastOk("googleLogin")
    /\ ~last.changed
    /\ last.inserted = 0
    /\ last.body.user.googleId = last.args[1]
    /\ \E u \in users : u.id = last.body.user.id /\ u.password = NoHash

(* C7: googleLogin with an external id no user holds and the email of a
   user who has a password creates no row: one row has that email afterwards,
   with the id and the password hash it had and the profile's external id. *)
C7_GoogleLoginLinksPasswordUser ==
    Quiet =>
    \A profile \in Profiles :
        LET email == profile.emails[1].value
            old == findUserByEmail(users, email)
            r == googleLogin(users, nextId, now, profile)
        IN  (/\ findUserByGoogleId(users, profile.id) = NoUser
             /\ old # NoUser
             /\ old.password # NoHash)
            => /\ Returned(r)
               /\ r.nextId = nextId
               /\ Cardinality(r.users) = Cardinality(users)
               /\ {u.id : u \in r.users} = {u.id : u \in users}
               /\ Cardinality(Rows(r.users, "email", email)) = 1
               /\ findUserByEmail(r.users, email).id = old.id
               /\ findUserByEmail(r.users, email).password = old.password
               /\ findUserByEmail(r.users, email).googleId = profile.id
               /\ r.body.access_token.payload.sub = old.id

C7_Witness ==
    /\ LastOk("googleLogin")
    /\ last.changed
    /\ last.inserted = 0
    /\ \E u \in users :
           /\ u.id = last.body.user.id
           /\ u.password # NoHash
           /\ u.googleId = last.args[1]
           /\ u.email = last.args[2]

(* C8: after changePassword(id, current, new) succeeds with new other than
   current, validateUser(email, new) returns the user and
   validateUser(email, current) returns null. *)
C8_OldPasswordFailsAfterChange ==
    \A id \in Ids, cur \in Passwords, new \in Passwords, s \in Salts :
        LET r == changePassword(users, nextId, now, id, cur, new, s)
            e == findUserById(users, id).email
        IN  (Returned(r) /\ new # cur)
            => /\ validateUser(r.users, e, new).id = id
               /\ validateUser(r.users, e, cur) = NoUser

(* C9: changePassword on an id no row has, or on a user whose hash is null,
   fails with 401 whatever the passwords given, and leaves the table, and so
   the null hash, as it was. *)
C9_ChangePasswordNeedsPasswordUser ==
    Quiet =>
    \A id \in Ids, cur \in Passwords, new \in Passwords, s \in Salts :
        LET user == findUserById(users, id)
            r == changePassword(users, nextId, now, id, cur, new, s)
        IN  (user = NoUser \/ user.password = NoHash)
            => /\ r.status = 401
               /\ r.users = users
               /\ r.nextId = nextId
               /\ (user # NoUser => findUserById(r.users, id).password = NoHash)

C9_Witness ==
    /\ last.op = "changePassword"
    /\ last.status = 401
    /\ ~last.changed
    /\ \E u \in users : u.id = last.args[1] /\ u.password = NoHash

(* the step answers a call or a request, which last' describes: it arrives
   and is answered at once, or it was in flight and is so no more *)
RequestServed ==
    /\ now' = now
    /\ calls' - calls = BagCardinality(pending') - BagCardinality(pending) + 1

(* the call or request the step leaves in flight where it was not, or has
   moved *)
Moved(p) == CopiesIn(p, pending') > CopiesIn(p, pending)

(* the step is a step of a call of one of the methods, or of a request to
   one of the routes *)
StepOf(routes) ==
    \/ RequestServed /\ last'.op \in routes
    \/ \E p \in BagToSet(pending') : Moved(p) /\ p.op \in routes

(* changePassword run with no step of another call between its own, on a
   row whose hash does not verify the current password given: 401, the table
   as it was, and the passwords the hash verified, and no other, validate *)
WrongCurrentPasswordFails ==
    Quiet =>
    \A id \in Ids, cur \in Passwords, new \in Passwords, s \in Salts :
        LET user == findUserById(users, id)
            r == changePassword(users, nextId, now, id, cur, new, s)
        IN  (/\ user # NoUser
             /\ user.password # NoHash
             /\ ~BcryptCompare(cur, user.password))
            => /\ r.status = 401
               /\ r.message = "Current password is incorrect"
               /\ r.users = users
               /\ findUserById(r.users, id).password = user.password
               /\ findUserById(r.users, id).updatedAt = user.updatedAt
               /\ \A p \in Passwords :
                      validateUser(r.users, user.email, p)
                          = IF BcryptCompare(p, user.password) THEN user ELSE NoUser

(* the calls as they ran, other calls between their steps or not: a
   changePassword answered "Current password is incorrect" was answered 401
   and changed nothing *)
WrongCurrentPasswordAnswered ==
    (last.op = "changePassword" /\ last.message = "Current password is incorrect")
        => /\ last.status = 401
           /\ ~last.changed
           /\ last.inserted = 0

(* C10: changePassword with a current password that does not verify fails
   with 401 and leaves the stored hash and updated-at as they were, so the
   passwords the hash verified validate afterwards and no other does; and
   whatever other calls do between its steps, no step of a changePassword
   call but the UPDATE of a call that succeeds changes the table: not the
   lookup, not the comparison, not the step that answers 401. *)
C10_WrongCurrentPasswordChangesNothing ==
    /\ []WrongCurrentPasswordFails
    /\ []WrongCurrentPasswordAnswered
    /\ [][(StepOf({"changePassword"}) /\ (RequestServed => last'.status = 401))
             => UNCHANGED <<users, nextId>>]_vars

C10_Witness ==
    /\ last.op = "changePassword"
    /\ last.status = 401
    /\ last.message = "Current password is incorrect"
    /\ ~last.changed
    /\ now > 0
    /\ \E u \in users :
           /\ u.id = last.args[1]
           /\ u.updatedAt < now
           /\ \E p \in Passwords : validateUser(users, u.email, p) = u

(* C11: googleLogin given a profile without any email raises a clear input
   error (a 4xx naming the input) instead of reading past the end of the empty
   list, and makes no store call: the table is as it was. *)
C11_EmptyEmailsIsInputError ==
    (last.op = "googleLogin" /\ last.args[2] = Null)
        => /\ last.status \in 400..499
           /\ last.message # "Internal server error"
           /\ ~last.changed

(* What follows is stated of the requests of SpecHttp. *)

(* the guard lets the token through *)
Accepts(tok) == JwtAuthGuard(users, now, tok) # NoUser

(* C12, as claimed: every issued token is accepted at every time before its
   expiry, whatever happened since its issue, and rejected only once expired. *)
C12_AcceptedUntilExpiry ==
    \A tok \in tokens : Accepts(tok) <=> now < tok.exp

(* C12, amended: an accepted token stops being accepted only when it
   expires or when DELETE users/:id removes the row of the user it names;
   password change, deactivation and update do not revoke it; an expired
   token is rejected. *)
C12_OnlyExpiryOrDeletionRevokes ==
    [][\A tok \in tokens :
          /\ (Accepts(tok) /\ ~Accepts(tok)')
                 => \/ now' >= tok.exp
                    \/ /\ RequestServed
                       /\ last'.op = "DELETE users/:id"
                       /\ last'.status = 204
                       /\ findUserById(users', tok.payload.sub) = NoUser
          /\ now' >= tok.exp => ~Accepts(tok)']_vars

C12_Witness ==
    /\ last.op = "PATCH users/:id/deactivate"
    /\ last.status = 200
    /\ \E tok \in tokens :
           /\ ~findUserById(users, tok.payload.sub).isActive
           /\ Accepts(tok)

(* C13: no step of a change-password request, the one that answers it with
   success included, issues a token, and every token accepted before the
   step, the caller's included, is accepted after it. *)
C13_ChangePasswordKeepsTokens ==
    [][StepOf({"POST auth/change-password"})
          => /\ tokens' = tokens
             /\ \A tok \in tokens : Accepts(tok) => Accepts(tok)']_vars

C13_Witness ==
    /\ last.op = "POST auth/change-password"
    /\ last.status = 200
    /\ last.changed
    /\ last.args[1] \in tokens
    /\ Accepts(last.args[1])

(* C14: no plaintext password a request carried is in the log or in a user
   row. *)
C14_NoPlaintextLoggedOrStored ==
    /\ \A entry \in log : \A f \in DOMAIN entry \ {"email"} : entry[f] \notin Passwords
    /\ \A u \in users : u.password \notin Passwords

(* C15 (under Spec): every Unauthorized failure of login and changePassword
   is the same generic 401: each carries the message "Unauthorized" and no
   other, and two failed changePassword calls carry the same message whatever
   made them fail. *)
C15_Generic401 ==
    /\ (last.op \in {"login", "changePassword"} /\ last.status = 401)
           => last.message = "Unauthorized"
    /\ \A id1 \in Ids, id2 \in Ids, cur1 \in Passwords, cur2 \in Passwords :
           LET r1 == changePassword(users, nextId, now, id1, cur1, PwShort, "saltA")
               r2 == changePassword(users, nextId, now, id2, cur2, PwShort, "saltA")
           IN  (r1.status = 401 /\ r2.status = 401) => r1.message = r2.message

(* C20 (under SpecHttp): a request to an endpoint the README marks (protected)
   that carries no token the server issued, or one that has expired, is
   answered 401 and nothing is read or written for it: users, books, their
   serials, the log and the issued tokens are as before.  A request without a
   token to a book read endpoint is served: 200, or 404 for a book that does
   not exist. *)
C20_ProtectedEndpointsGuarded ==
    [][(calls' = calls + 1 /\ now' = now) =>
          LET answered == RequestServed
              new == CHOOSE p \in BagToSet(pending') : Moved(p)
              route == IF answered THEN last'.op ELSE new.op
              auth == IF answered THEN last'.args[1] ELSE new.auth
              valid == auth \in tokens /\ now < auth.exp
          IN  /\ (route \in ReadmeProtected /\ ~valid)
                     => /\ answered
                        /\ last'.status = 401
                        /\ ~last'.changed
                        /\ UNCHANGED <<users, nextId, books, nextBookId, log, tokens>>
              /\ (route \in BookReadRoutes)
                     => /\ answered
                        /\ auth = NoToken
                        /\ last'.status \in {200, 404}
              /\ ~answered => UNCHANGED <<users, nextId, books, nextBookId, log, tokens>>]_vars

C20_Witness ==
    /\ last.op = "PATCH books/:id/stock"
    /\ last.status = 401
    /\ last.args[1] = NoToken
    /\ \E b \in books : b.stock # 7

(* What follows is stated of the interleaved calls of SpecRace. *)

Finished(i) == procs[i].pc = "done"

CallEmail(i) ==
    CASE procs[i].op = "register" -> procs[i].arg.userData.email
      [] procs[i].op = "googleLogin" -> PrimaryEmail(procs[i].arg)
      [] OTHER -> procs[i].arg.dto.email

WithEmail(email) == {u \in users : u.email = email}

WithGoogleId(id) == {u \in users : u.googleId = id}

(* C16: in every state the interleaved register, googleLogin and
   UsersService.update calls reach, no two user rows have the same email. *)
C16_EmailUnique ==
    \A u \in users, v \in users : u.email = v.email => u = v

C16_Witness ==
    \E i \in DOMAIN procs, j \in DOMAIN procs :
        /\ procs[i].op = "register" /\ procs[j].op = "googleLogin"
        /\ Finished(i) /\ Finished(j)
        /\ procs[i].wrote = "insert" /\ procs[j].wrote = "insert"
        /\ CallEmail(i) = CallEmail(j)
        /\ Cardinality(WithEmail(CallEmail(i))) = 1

(* C17: in every state the interleaved calls reach, no two user rows have the
   same non-null Google id. *)
C17_GoogleIdUnique ==
    \A u \in users, v \in users :
        (u.googleId # Null /\ u.googleId = v.googleId) => u = v

C17_Witness ==
    \E i \in DOMAIN procs, j \in DOMAIN procs :
        /\ procs[i].op = "googleLogin" /\ procs[j].op = "googleLogin"
        /\ Finished(i) /\ Finished(j)
        /\ procs[i].arg.id = procs[j].arg.id
        /\ CallEmail(i) # CallEmail(j)
        /\ procs[i].wrote = "update" /\ procs[j].wrote = "insert"
        /\ Cardinality(WithGoogleId(procs[i].arg.id)) = 1

(* two finished googleLogin calls for the same profile that both found
   neither the Google id nor the email and so both sent their INSERT: each
   passed both lookups before the other wrote *)
RacedCreates(i, j) ==
    /\ i < j
    /\ procs[i].op = "googleLogin" /\ procs[j].op = "googleLogin"
    /\ procs[i].arg = procs[j].arg
    /\ Finished(i) /\ Finished(j)
    /\ procs[i].wrote = "insert" /\ procs[j].wrote = "insert"

(* C18, as claimed: when two concurrent googleLogin calls for the same
   brand-new profile both pass both lookups before either writes, the run ends
   with two inserted rows for that profile. *)
C18_RaceInsertsTwoRows ==
    \A i \in DOMAIN procs, j \in DOMAIN procs :
        (Len(procs) = 2 /\ RacedCreates(i, j))
            => Cardinality(WithGoogleId(procs[i].arg.id)) = 2

(* C18, amended: two concurrent googleLogin calls for the same brand-new
   profile, with no other call running, can both pass both lookups before
   either writes, but then only one INSERT is accepted: the other violates
   the UNIQUE constraints and its call fails with 500.  Exactly one call
   returns a token and the table ends with exactly one row, which holds the
   profile's Google id and email. *)
C18_RaceInsertsOneRow ==
    \A i \in DOMAIN procs, j \in DOMAIN procs :
        (Len(procs) = 2 /\ RacedCreates(i, j))
            => /\ {procs[i].status, procs[j].status} = {302, 500}
               /\ Cardinality(users) = 1
               /\ Cardinality(WithGoogleId(procs[i].arg.id)) = 1
               /\ Cardinality(WithEmail(CallEmail(i))) = 1

C18_Witness ==
    /\ Len(procs) = 2
    /\ RacedCreates(1, 2)
    /\ procs[1].status = 500
    /\ procs[2].status = 302
    /\ Cardinality(users) = 1

(* C19: when two concurrent register calls with the same email are the only
   calls and both are finished, exactly one row has that email, exactly one
   call returned a token, and the other failed with the 401 "User already
   exists". *)
C19_RaceLoserGetsConflict ==
    \A i \in DOMAIN procs, j \in DOMAIN procs :
        (/\ Len(procs) = 2 /\ i # j
         /\ procs[i].op = "register" /\ procs[j].op = "register"
         /\ CallEmail(i) = CallEmail(j)
         /\ Finished(i) /\ Finished(j)
         /\ procs[i].status <= procs[j].status)
            => /\ Cardinality(WithEmail(CallEmail(i))) = 1
               /\ procs[i].status = 201
               /\ "access_token" \in DOMAIN procs[i].body
               /\ procs[j].status = 401
               /\ procs[j].message = "User already exists"

(* What follows is stated of the service calls of Spec again. *)

(* C21: when one user A holds the profile's external id and a different user
   B holds the profile's primary email, googleLogin logs in A (the token's
   subject and the returned user are A) and leaves B's row, its external id
   and avatar included, as it was. *)
C21_ExternalIdBeatsEmail ==
    Quiet =>
    \A profile \in Profiles :
        LET A == findUserByGoogleId(users, profile.id)
            B == findUserByEmail(users, profile.emails[1].value)
            r == googleLogin(users, nextId, now, profile)
        IN  (A # NoUser /\ B # NoUser /\ A.id # B.id)
            => /\ Returned(r)
               /\ r.body.access_token.payload.sub = A.id
               /\ r.body.user = WithoutPassword(A)
               /\ findUserById(r.users, B.id) = B
               /\ findUserById(r.users, B.id).googleId = B.googleId
               /\ findUserById(r.users, B.id).avatar = B.avatar

C21_Witness ==
    /\ LastOk("googleLogin")
    /\ \E A \in users, B \in users :
           /\ A.id # B.id
           /\ A.googleId = last.args[1]
           /\ B.email = last.args[2]
           /\ last.body.user.id = A.id
           /\ last.body.access_token.payload.sub = A.id

(* a user nobody can authenticate as by password: validateUser returns null
   for every plaintext and changePassword fails with 401, changing nothing *)
NoPasswordLogin(us, nid, t, u) ==
    /\ \A p \in Passwords : validateUser(us, u.email, p) = NoUser
    /\ \A cur \in Passwords, new \in Passwords, s \in Salts :
           LET c == changePassword(us, nid, t, u.id, cur, new, s)
           IN  c.status = 401 /\ c.users = us

(* C22: googleLogin that finds neither the external id nor the primary email
   inserts exactly one row, with a null password hash and the profile's
   external id and primary email; for that user, and for every user whose
   hash is null in any reachable state, validateUser returns null for every
   plaintext and changePassword fails with 401. *)
C22_CreatedGoogleUserHasNoPassword ==
    Quiet =>
        /\ \A profile \in Profiles :
               LET email == profile.emails[1].value
                   r == googleLogin(users, nextId, now, profile)
                   new == r.users \ users
               IN  (/\ findUserByGoogleId(users, profile.id) = NoUser
                    /\ findUserByEmail(users, email) = NoUser)
                   => /\ Returned(r)
                      /\ users \subseteq r.users
                      /\ Cardinality(new) = 1
                      /\ \A row \in new :
                             /\ row.password = NoHash
                             /\ row.googleId = profile.id
                             /\ row.email = email
                             /\ r.body.user.id = row.id
                             /\ NoPasswordLogin(r.users, r.nextId, now, row)
        /\ \A u \in users : u.password = NoHash => NoPasswordLogin(users, nextId, now, u)

C22_Witness ==
    /\ LastOk("googleLogin")
    /\ last.inserted = 1
    /\ Cardinality(users) = 2
    /\ \E u \in users :
           /\ u.id = last.body.user.id
           /\ u.password = NoHash
           /\ u.googleId = last.args[1]
           /\ u.email = last.args[2]
           /\ NoPasswordLogin(users, nextId, now, u)

(* C23: after the link step of googleLogin the user the call returns equals
   the stored row of that user less its password (a value left undefined in
   memory standing for the column's NULL), for every profile, also one
   without a photo linked to a user whose row has an avatar. *)
C23_LinkedRecordMatchesStore ==
    \A profile \in Profiles :
        LET old == findUserByEmail(users, profile.emails[1].value)
            r == googleLogin(users, nextId, now, profile)
            row == WithoutPassword(findUserById(r.users, old.id))
        IN  (/\ findUserByGoogleId(users, profile.id) = NoUser
             /\ old # NoUser
             /\ Returned(r))
            => /\ DOMAIN r.body.user = DOMAIN row
               /\ \A f \in DOMAIN row :
                      IF f \in TextColumns
                      THEN OrNull(r.body.user[f]) = row[f]
                      ELSE r.body.user[f] = row[f]

(* What follows is stated of the requests of SpecHttp again. *)

(* the same call made a second time, later, on the store the first left:
   the login route answers with the same status and the same user, and the
   guard, as long as it accepts the token, attaches the same user for the
   profile route to return *)
SecondCallSameUser ==
    /\ \A e \in Emails, p \in Passwords :
           LET r1 == postLogin(users, nextId, now, e, p)
               r2 == postLogin(r1.users, r1.nextId, now + 1, e, p)
           IN  /\ r2.status = r1.status
               /\ Returned(r1) => r2.body.user = r1.body.user
               /\ validateUser(r1.users, e, p) = validateUser(users, e, p)
    /\ \A tok \in tokens :
           LET u1 == JwtAuthGuard(users, now, tok)
               u2 == JwtAuthGuard(users, now + 1, tok)
           IN  (u1 # NoUser /\ u2 # NoUser) => WithoutPassword(u2) = WithoutPassword(u1)

(* C24: no step of a login request (the lookup of validateUser, its
   bcrypt.compare, the handler's login) and no step of a profile request
   changes a user row, updated-at included, or the serial, whatever the
   request is answered; and in every state the same call made a second time
   gives the same user. *)
C24_ReadOnlyAuthCalls ==
    /\ [][StepOf({"POST auth/login", "GET auth/profile"})
             => /\ users' = users
                /\ nextId' = nextId]_vars
    /\ []SecondCallSameUser

C24_Witness ==
    /\ last.op = "POST auth/login"
    /\ last.status = 201
    /\ \E u \in users : u.updatedAt < now /\ u.password # NoHash
    /\ \E t1 \in tokens, t2 \in tokens :
           /\ t1.iat < t2.iat
           /\ t1.payload.sub = t2.payload.sub

BookIds == 1..(MaxBooks + 1)

(* the rows other than id are the same in both tables *)
OthersKept(before, after, id) ==
    {x \in before : x.id # id} = {x \in after : x.id # id}

(* C25: every by-id operation of UsersService and of BooksService, given an
   id no row has, fails with 404 and the not-found message and leaves the
   table and its serial as they were; given an id a row has, it leaves every
   other row as it was and inserts none. *)
C25_ByIdOperations ==
    Quiet =>
        /\ \A id \in Ids :
               \A r \in {usersFindOne(users, nextId, id),
                         usersRemove(users, nextId, id),
                         usersDeactivate(users, nextId, now, id),
                         usersActivate(users, nextId, now, id)}
                         \cup {usersUpdate(users, nextId, now, id, dto) : dto \in UpdateUserDtos} :
                   /\ findUserById(users, id) = NoUser
                          => /\ r.status = 404
                             /\ r.message = "User with ID " \o ToString(id) \o " not found"
                             /\ r.users = users
                   /\ r.nextId = nextId
                   /\ OthersKept(users, r.users, id)
        /\ \A id \in BookIds :
               \A r \in {booksFindOne(books, nextBookId, id),
                         booksRemove(books, nextBookId, id),
                         booksUpdateStock(books, nextBookId, now, id, 7)}
                         \cup {booksUpdate(books, nextBookId, now, id, dto) : dto \in UpdateBookDtos} :
                   /\ findBookById(books, id) = NoBook
                          => /\ r.status = 404
                             /\ r.message = "Book with ID " \o ToString(id) \o " not found"
                             /\ r.books = books
                   /\ r.nextBookId = nextBookId
                   /\ OthersKept(books, r.books, id)

C25_Witness ==
    /\ last.op = "PATCH books/:id/stock"
    /\ last.status = 404
    /\ ~last.changed
    /\ last.args[1] \in tokens
    /\ \E b \in books : b.stock # 7

(* the table with the active flag of user id set to flag *)
WithActive(us, id, flag) ==
    {IF u.id = id THEN [u EXCEPT !.isActive = flag] ELSE u : u \in us}

(* a user record, or a table, with the active flag out of sight *)
LessActive(user) == [f \in DOMAIN user \ {"isActive"} |-> user[f]]

LessActiveAll(us) == {LessActive(u) : u \in us}

(* two outcomes that differ in active flags at most *)
SameButActive(r1, r2) ==
    /\ r1.status = r2.status
    /\ r1.message = r2.message
    /\ r1.nextId = r2.nextId
    /\ LessActiveAll(r1.users) = LessActiveAll(r2.users)
    /\ DOMAIN r1.body = DOMAIN r2.body
    /\ "access_token" \in DOMAIN r1.body
           => /\ r1.body.access_token = r2.body.access_token
              /\ LessActive(r1.body.user) = LessActive(r2.body.user)

(* C26: for every user, validateUser, the login route, googleLogin, the
   bearer-token guard and changePassword give the same result, up to the
   flag itself, on the table where the user is active and on the table where
   the user is deactivated. *)
C26_ActiveFlagNotConsulted ==
    Quiet =>
    \A u \in users :
        LET on == WithActive(users, u.id, TRUE)
            off == WithActive(users, u.id, FALSE)
        IN  /\ \A e \in Emails, p \in Passwords :
                   /\ LessActive(validateUser(on, e, p)) = LessActive(validateUser(off, e, p))
                   /\ SameButActive(postLogin(on, nextId, now, e, p),
                                    postLogin(off, nextId, now, e, p))
            /\ \A profile \in RaceProfiles :
                   SameButActive(googleLogin(on, nextId, now, profile),
                                 googleLogin(off, nextId, now, profile))
            /\ \A tok \in Auths :
                   LessActive(JwtAuthGuard(on, now, tok)) = LessActive(JwtAuthGuard(off, now, tok))
            /\ \A cur \in Passwords, new \in HttpPasswords, salt \in Salts :
                   SameButActive(changePassword(on, nextId, now, u.id, cur, new, salt),
                                 changePassword(off, nextId, now, u.id, cur, new, salt))

(* a deactivated user has logged in, and a token of theirs is accepted *)
C26_Witness ==
    /\ last.op = "POST auth/login"
    /\ last.status = 201
    /\ \E u \in users :
           /\ ~u.isActive
           /\ users = {u}
           /\ \E tok \in tokens :
                  /\ tok.payload.sub = u.id
                  /\ tok.iat >= u.updatedAt
                  /\ Accepts(tok)

(* What follows is stated of the service calls of Spec again. *)

(* C27: googleLogin that finds no user by the profile's external id and, by
   email, a user who holds another external id, replaces that id by the
   profile's: afterwards the row holds the profile's id, and a googleLogin
   carrying the previous id finds nobody by external id, so it does not log
   that user in by it. *)
C27_LinkOverwritesGoogleId ==
    Quiet =>
    \A profile \in Profiles :
        LET old == findUserByEmail(users, profile.emails[1].value)
            r == googleLogin(users, nextId, now, profile)
        IN  (/\ findUserByGoogleId(users, profile.id) = NoUser
             /\ old # NoUser
             /\ old.googleId # Null)
            => /\ Returned(r)
               /\ findUserById(r.users, old.id).googleId = profile.id
               /\ r.body.user.id = old.id
               /\ r.body.user.googleId = profile.id
               /\ findUserByGoogleId(r.users, old.googleId) = NoUser
               /\ OthersKept(users, r.users, old.id)

C27_Witness ==
    /\ LastOk("googleLogin")
    /\ last.changed
    /\ last.inserted = 0
    /\ \E u \in users :
           /\ u.id = last.body.user.id
           /\ u.password = NoHash
           /\ u.googleId = last.args[1]
           /\ findUserByGoogleId(users, CHOOSE g \in GoogleIds : g # last.args[1]) = NoUser

(* What follows is stated of the interleaved calls of SpecChange. *)

(* two finished changePassword calls for the same user with different new
   passwords that both sent their UPDATE after reading the same row: both
   verified the current password before either wrote; the write of j was
   applied last, the row being as j left it *)
RacedChanges(i, j) ==
    /\ i # j
    /\ procs[i].op = "changePassword" /\ procs[j].op = "changePassword"
    /\ procs[i].arg.userId = procs[j].arg.userId
    /\ procs[i].arg.newPassword # procs[j].arg.newPassword
    /\ Finished(i) /\ Finished(j)
    /\ procs[i].wrote = "update" /\ procs[j].wrote = "update"
    /\ procs[i].user = procs[j].user
    /\ procs[j].after # NoUser
    /\ procs[j].after = findUserById(users, procs[j].arg.userId)

(* C28: when two changePassword calls for the same user with the correct
   current password and different new passwords both verify before either
   writes, both return success, and the stored hash afterwards verifies the
   new password of the write applied last and not the new password of the
   other write. *)
C28_LastWriteWins ==
    \A i \in DOMAIN procs, j \in DOMAIN procs :
        RacedChanges(i, j)
            => LET hash == findUserById(users, procs[j].arg.userId).password
               IN  /\ procs[i].status = 200
                   /\ procs[j].status = 200
                   /\ BcryptCompare(procs[j].arg.newPassword, hash)
                   /\ ~BcryptCompare(procs[i].arg.newPassword, hash)

(* C29: whenever changePassword has returned success, its UPDATE left the
   row of its user in the table, with a hash that verifies the new password,
   whatever ran between its lookup and its write. *)
C29_SuccessMeansPasswordChanged ==
    \A i \in DOMAIN procs :
        (procs[i].op = "changePassword" /\ Finished(i) /\ procs[i].status = 200)
            => /\ procs[i].after # NoUser
               /\ BcryptCompare(procs[i].arg.newPassword, procs[i].after.password)

(* What follows is stated of the requests of SpecHttp again. *)

(* C30: a users request that carries any token the guard accepts is carried
   out on the user the path names, the token's subject or not: DELETE removes
   that row, deactivate and activate set its flag, PATCH writes it (or ends
   in 500 on an email another row holds).  A change-password request writes
   no row other than that of the token's subject. *)
C30_UsersRoutesIgnoreSubject ==
    Quiet =>
    \A tok \in tokens :
        Accepts(tok) =>
            /\ \A u \in users :
                   LET del == Guarded("DELETE users/:id", CurrentStore, now, tok,
                                  OfUsers(usersRemove(users, nextId, u.id), CurrentStore))
                       off == Guarded("PATCH users/:id/deactivate", CurrentStore, now, tok,
                                  OfUsers(usersDeactivate(users, nextId, now, u.id), CurrentStore))
                       on == Guarded("PATCH users/:id/activate", CurrentStore, now, tok,
                                 OfUsers(usersActivate(users, nextId, now, u.id), CurrentStore))
                   IN  /\ del.status = 204
                       /\ del.store.users = users \ {u}
                       /\ off.status = 200
                       /\ ~findUserById(off.store.users, u.id).isActive
                       /\ on.status = 200
                       /\ findUserById(on.store.users, u.id).isActive
                       /\ \A dto \in UpdateUserDtos :
                              LET upd == Guarded("PATCH users/:id", CurrentStore, now, tok,
                                             OfUsers(usersUpdate(users, nextId, now, u.id, dto),
                                                     CurrentStore))
                              IN  IF \E v \in users : v.id # u.id /\ v.email = dto.email
                                  THEN upd.status = 500 /\ upd.store.users = users
                                  ELSE /\ upd.status = 200
                                       /\ findUserById(upd.store.users, u.id).email = dto.email
                                       /\ findUserById(upd.store.users, u.id).updatedAt = now
            /\ \A req \in Requests("POST auth/change-password"), salt \in Salts :
                   LET chg == Guarded("POST auth/change-password", CurrentStore, now, tok,
                                  authChangePassword(CurrentStore, now,
                                      JwtAuthGuard(users, now, tok), req.body, salt))
                   IN  /\ OthersKept(users, chg.store.users, tok.payload.sub)
                       /\ {u.id : u \in chg.store.users} = {u.id : u \in users}

(* a request with the token of one user has deleted another user *)
C30_Witness ==
    /\ last.op = "DELETE users/:id"
    /\ last.status = 204
    /\ last.args[1] \in tokens
    /\ nextId = 3
    /\ \E u \in users : users = {u} /\ u.id = last.args[1].payload.sub

====
